---- MODULE Spec2Model ----
(***************************************************************************)
(* A model of md-2-spa (src/custom-parse): the manifest generator          *)
(* (manifest.py), the link/embed resolver (resolver.py, parser.py) and the *)
(* build pipeline (build.py, parser.py).                                   *)
(*                                                                         *)
(* Python strings are sequences of one-character strings, so that slugify, *)
(* make_id, make_title, split and strip are computed character by          *)
(* character as the code computes them.  A Python dict is a sequence of    *)
(* its values in insertion order (each value carries its key).             *)
(***************************************************************************)
EXTENDS Integers, Sequences, FiniteSets, TLC

-----------------------------------------------------------------------------
(* Characters.  AsciiTable lists the modelled alphabet in code-point order. *)

AsciiTable ==
  << "\n", " ", "!", "\"", "#", "&", "'", "(", ")", "-", ".", "/",
     "0", "1", "2", "3", "4", "5", "6", "7", "8", "9",
     ";", "<", "=", ">",
     "A", "B", "C", "D", "E", "F", "G", "H", "I", "J", "K", "L", "M",
     "N", "O", "P", "Q", "R", "S", "T", "U", "V", "W", "X", "Y", "Z",
     "[", "]", "_",
     "a", "b", "c", "d", "e", "f", "g", "h", "i", "j", "k", "l", "m",
     "n", "o", "p", "q", "r", "s", "t", "u", "v", "w", "x", "y", "z",
     "|" >>

CharSet == { AsciiTable[i] : i \in 1..Len(AsciiTable) }

UpperSeq ==
  << "A", "B", "C", "D", "E", "F", "G", "H", "I", "J", "K", "L", "M",
     "N", "O", "P", "Q", "R", "S", "T", "U", "V", "W", "X", "Y", "Z" >>

LowerSeq ==
  << "a", "b", "c", "d", "e", "f", "g", "h", "i", "j", "k", "l", "m",
     "n", "o", "p", "q", "r", "s", "t", "u", "v", "w", "x", "y", "z" >>

UpperSet == { UpperSeq[i] : i \in 1..Len(UpperSeq) }
LowerSet == { LowerSeq[i] : i \in 1..Len(LowerSeq) }
DigitSet == { "0", "1", "2", "3", "4", "5", "6", "7", "8", "9" }
SpaceSet == { " ", "\n" }

\* ord(c), up to an order-preserving renumbering of the alphabet
OrdOf == [ c \in CharSet |-> CHOOSE i \in 1..Len(AsciiTable) : AsciiTable[i] = c ]

LowerOf ==
  [ c \in CharSet |->
      IF c \in UpperSet
        THEN LowerSeq[CHOOSE i \in 1..Len(UpperSeq) : UpperSeq[i] = c]
        ELSE c ]

UpperOf ==
  [ c \in CharSet |->
      IF c \in LowerSet
        THEN UpperSeq[CHOOSE i \in 1..Len(LowerSeq) : LowerSeq[i] = c]
        ELSE c ]

-----------------------------------------------------------------------------
(* str methods *)

\* str.lower()
str_lower(s) == [ i \in 1..Len(s) |-> LowerOf[s[i]] ]

\* s[lo-1:hi] of Python, 1-based and inclusive here
Slice(s, lo, hi) == IF lo > hi THEN << >> ELSE SubSeq(s, lo, hi)

RECURSIVE LStripIdx(_, _, _)
LStripIdx(s, cs, i) ==
  IF i <= Len(s) /\ s[i] \in cs THEN LStripIdx(s, cs, i + 1) ELSE i

RECURSIVE RStripIdx(_, _, _)
RStripIdx(s, cs, i) ==
  IF i >= 1 /\ s[i] \in cs THEN RStripIdx(s, cs, i - 1) ELSE i

\* str.strip(chars): both ends
str_strip(s, cs) ==
  LET lo == LStripIdx(s, cs, 1)
      hi == RStripIdx(s, cs, Len(s))
  IN  Slice(s, lo, hi)

\* str.lstrip(chars)
str_lstrip(s, cs) == Slice(s, LStripIdx(s, cs, 1), Len(s))

\* c in s
Contains(s, c) == \E i \in 1..Len(s) : s[i] = c

\* s.find(c), 0 when absent
FirstIdx(s, c) ==
  IF Contains(s, c) THEN CHOOSE i \in 1..Len(s) : s[i] = c /\ \A j \in 1..(i - 1) : s[j] # c
  ELSE 0

\* s.rfind(c), 0 when absent
LastIdx(s, c) ==
  IF Contains(s, c) THEN CHOOSE i \in 1..Len(s) : s[i] = c /\ \A j \in (i + 1)..Len(s) : s[j] # c
  ELSE 0

\* str.split(sep) for a one-character sep: a sequence of strings
RECURSIVE str_split(_, _)
str_split(s, sep) ==
  LET i == FirstIdx(s, sep)
  IN  IF i = 0 THEN << s >>
      ELSE << Slice(s, 1, i - 1) >> \o str_split(Slice(s, i + 1, Len(s)), sep)

\* sep.join(parts)
RECURSIVE str_join(_, _)
str_join(parts, sep) ==
  IF Len(parts) = 0 THEN << >>
  ELSE IF Len(parts) = 1 THEN parts[1]
  ELSE parts[1] \o sep \o str_join(Tail(parts), sep)

\* str.replace(old, new) for a one-character old
RECURSIVE str_replace(_, _, _)
str_replace(s, old, new) ==
  IF s = << >> THEN << >>
  ELSE (IF Head(s) = old THEN new ELSE << Head(s) >>) \o str_replace(Tail(s), old, new)

\* a < b for str: lexicographic on code points
RECURSIVE str_less(_, _)
str_less(a, b) ==
  IF b = << >> THEN FALSE
  ELSE IF a = << >> THEN TRUE
  ELSE IF Head(a) = Head(b) THEN str_less(Tail(a), Tail(b))
  ELSE OrdOf[Head(a)] < OrdOf[Head(b)]

\* str.title(): a cased letter is upper-cased after an uncased character (or at
\* the start) and lower-cased after a cased one
str_title(s) ==
  [ i \in 1..Len(s) |->
      IF i > 1 /\ s[i - 1] \in (UpperSet \cup LowerSet)
        THEN LowerOf[s[i]]
        ELSE UpperOf[s[i]] ]

\* re.sub(r"[^...]", "", s): keep the characters of the set
RECURSIVE KeepChars(_, _)
KeepChars(s, keep) ==
  IF s = << >> THEN << >>
  ELSE (IF Head(s) \in keep THEN << Head(s) >> ELSE << >>) \o KeepChars(Tail(s), keep)

\* re.sub(r"[cs]+", rep, s): every maximal run of characters of cs becomes rep
RECURSIVE SubRuns(_, _, _)
SubRuns(s, cs, rep) ==
  IF s = << >> THEN << >>
  ELSE IF Head(s) \in cs
    THEN rep \o SubRuns(Slice(s, LStripIdx(s, cs, 1), Len(s)), cs, rep)
    ELSE << Head(s) >> \o SubRuns(Tail(s), cs, rep)

-----------------------------------------------------------------------------
(* manifest.py: constants *)

DOT_OBSIDIAN == << ".", "o", "b", "s", "i", "d", "i", "a", "n" >>
DOT_EXCALIDRAW == << ".", "e", "x", "c", "a", "l", "i", "d", "r", "a", "w" >>
DOT_DS_STORE == << ".", "D", "S", "_", "S", "t", "o", "r", "e" >>

IGNORE_DIRS == { DOT_OBSIDIAN, DOT_EXCALIDRAW }
IGNORE_FILES == { DOT_DS_STORE }
GRAPHICS_DIR_NAME == << "g", "r", "a", "p", "h", "i", "c", "s" >>
IMAGE_EXTENSIONS ==
  { << ".", "p", "n", "g" >>, << ".", "j", "p", "g" >>, << ".", "j", "p", "e", "g" >>, << ".", "g", "i", "f" >>,
    << ".", "s", "v", "g" >>, << ".", "w", "e", "b", "p" >>, << ".", "b", "m", "p" >> }

README_MD == << "r", "e", "a", "d", "m", "e", ".", "m", "d" >>
DOT_MD == << ".", "m", "d" >>
ROOT == << "r", "o", "o", "t" >>
ROOT_DIR_ID == << "r", "o", "o", "t", "-", "d", "i", "r" >>
ROOT_TITLE == << "R", "o", "o", "t" >>
DIR_SUFFIX == << "-", "d", "i", "r" >>
GRAPHICS_SUFFIX == << "-", "g", "r", "a", "p", "h", "i", "c", "s" >>
FILE_SUFFIX == << "-", "f", "i", "l", "e" >>
README_HTML == << "/", "R", "E", "A", "D", "M", "E", ".", "h", "t", "m", "l" >>
ROOT_CONTENT_PATH == << "/", "r", "e", "a", "d", "m", "e", ".", "h", "t", "m", "l" >>
DOT_HTML == << ".", "h", "t", "m", "l" >>
SLASH == << "/" >>

-----------------------------------------------------------------------------
(* manifest.py: helpers *)

SlugKeep == LowerSet \cup DigitSet \cup SpaceSet \cup { "-", "_", "/" }

\* a slip: the hyphens are trimmed before spaces and underscores become hyphens
slugify_trim_first(text) ==
  LET t1 == str_lower(str_strip(text, SpaceSet))
      t2 == str_strip(KeepChars(t1, SlugKeep), { "-" })
      t3 == SubRuns(t2, SpaceSet \cup { "_" }, << "-" >>)
  IN  SubRuns(t3, { "-" }, << "-" >>)

\* slugify(text)
slugify(text) ==
  LET t1 == str_lower(str_strip(text, SpaceSet))
      t2 == KeepChars(t1, SlugKeep)
      t3 == SubRuns(t2, SpaceSet \cup { "_" }, << "-" >>)
      t4 == SubRuns(t3, { "-" }, << "-" >>)
  IN  str_strip(t4, { "-" })

\* make_id(slug, node_type)
make_id(slug, node_type) ==
  LET suffix == IF node_type = "directory" THEN DIR_SUFFIX
                ELSE IF node_type = "graphics" THEN GRAPHICS_SUFFIX ELSE FILE_SUFFIX
      parts  == str_split(str_strip(slug, { "/" }), "/")
      n      == Len(parts)
  IN  IF node_type = "graphics"
        THEN (IF n >= 2 THEN parts[n - 1] ELSE ROOT) \o suffix
        ELSE (IF parts[n] # << >> THEN parts[n] ELSE parts[1]) \o suffix

\* make_title(name)
make_title(name) ==
  str_title(str_replace(str_replace(name, "_", << " " >>), "-", << " " >>))

-----------------------------------------------------------------------------
(* The file system.  A vault is a set of entries [path, kind]: path is the  *)
(* sequence of names below the vault root (<< >> is the root itself), kind  *)
(* is "dir" or "file".                                                      *)

PathName(path) == path[Len(path)]
PathParent(path) == Slice(path, 1, Len(path) - 1)

\* Path.is_dir(), Path.is_file()
is_dir(fs, path) == [path |-> path, kind |-> "dir"] \in fs
is_file(fs, path) == [path |-> path, kind |-> "file"] \in fs

\* PurePath.suffix: from the last dot, unless that dot starts or ends the name
path_suffix(name) ==
  LET i == LastIdx(name, ".")
  IN  IF 1 < i /\ i < Len(name) THEN Slice(name, i, Len(name)) ELSE << >>

\* PurePath.stem
path_stem(name) ==
  LET i == LastIdx(name, ".")
  IN  IF 1 < i /\ i < Len(name) THEN Slice(name, 1, i - 1) ELSE name

\* str(path.relative_to(vault_root)) for a path below the root
path_str(path) == str_join(path, SLASH)

\* the names of the entries of a directory
DirNames(fs, dir) ==
  { PathName(e.path) : e \in { x \in fs : Len(x.path) = Len(dir) + 1
                                         /\ PathParent(x.path) = dir } }

RECURSIVE SortNames(_)
SortNames(names) ==
  IF names = {} THEN << >>
  ELSE LET m == CHOOSE x \in names : \A y \in names \ {x} : str_less(x, y)
       IN  << m >> \o SortNames(names \ {m})

Reverse(s) == [ i \in 1..Len(s) |-> s[Len(s) + 1 - i] ]

\* Path.iterdir(): the order is the operating system's; the model has it
\* ascending or descending by name
iterdir(fs, dir, order) ==
  LET asc == SortNames(DirNames(fs, dir))
  IN  IF order = "asc" THEN asc ELSE Reverse(asc)

\* has_readme(directory): the marker's actual name, or NONE
NONE == << "N", "o", "n", "e", "/" >>

RECURSIVE FirstReadme(_, _, _)
FirstReadme(fs, dir, names) ==
  IF names = << >> THEN NONE
  ELSE IF is_file(fs, Append(dir, Head(names))) /\ str_lower(Head(names)) = README_MD
    THEN Head(names)
    ELSE FirstReadme(fs, dir, Tail(names))

\* a slip: a marker anywhere below the directory makes it eligible
has_readme_below(fs, dir, order) ==
  IF \E e \in fs : /\ e.kind = "file"
                   /\ Len(e.path) > Len(dir)
                   /\ Slice(e.path, 1, Len(dir)) = dir
                   /\ str_lower(PathName(e.path)) = README_MD
    THEN README_MD ELSE NONE

\* has_readme(directory)
has_readme(fs, dir, order) == FirstReadme(fs, dir, iterdir(fs, dir, order))

\* is_graphics_dir(path)
is_graphics_dir(name) == str_lower(name) = GRAPHICS_DIR_NAME

\* should_ignore(path)
should_ignore(fs, path) ==
  \/ PathName(path) \in IGNORE_FILES
  \/ is_dir(fs, path) /\ PathName(path) \in IGNORE_DIRS

RECURSIVE FilterAssets(_, _, _)
FilterAssets(fs, dir, names) ==
  IF names = << >> THEN << >>
  ELSE (IF /\ is_file(fs, Append(dir, Head(names)))
           /\ str_lower(path_suffix(Head(names))) \in IMAGE_EXTENSIONS
          THEN << Head(names) >> ELSE << >>)
       \o FilterAssets(fs, dir, Tail(names))

\* collect_assets(graphics_path): sorted(iterdir()) filtered
collect_assets(fs, graphics_path) ==
  FilterAssets(fs, graphics_path, SortNames(DirNames(fs, graphics_path)))

-----------------------------------------------------------------------------
(* Python dicts keyed by node id, in insertion order *)

DictHas(d, id) == \E i \in 1..Len(d) : d[i].id = id

\* d[node.id] = node: an existing key keeps its place and takes the new value
DictPut(d, node) ==
  IF DictHas(d, node.id)
    THEN [ i \in 1..Len(d) |-> IF d[i].id = node.id THEN node ELSE d[i] ]
    ELSE Append(d, node)

\* d.update(other)
RECURSIVE DictUpdate(_, _)
DictUpdate(d, other) ==
  IF other = << >> THEN d
  ELSE DictUpdate(DictPut(d, Head(other)), Tail(other))

-----------------------------------------------------------------------------
(* manifest.py: walk_directory *)

\* a slip: the key without its first component, (e.name.lower())
EntryKeyLessByName(fs, dir, a, b) == str_less(str_lower(a), str_lower(b))

\* the sort key of walk_directory: (not e.is_dir(), e.name.lower())
EntryKeyLess(fs, dir, a, b) ==
  LET ad == is_dir(fs, Append(dir, a))
      bd == is_dir(fs, Append(dir, b))
  IN  \/ ad /\ ~bd
      \/ ad = bd /\ str_less(str_lower(a), str_lower(b))

\* sorted() is stable: an entry goes after every entry that is not greater
RECURSIVE InsertEntry(_, _, _, _)
InsertEntry(fs, dir, sorted, x) ==
  IF sorted = << >> THEN << x >>
  ELSE IF EntryKeyLess(fs, dir, x, Head(sorted))
    THEN << x >> \o sorted
    ELSE << Head(sorted) >> \o InsertEntry(fs, dir, Tail(sorted), x)

RECURSIVE SortEntries(_, _, _, _)
SortEntries(fs, dir, todo, sorted) ==
  IF todo = << >> THEN sorted
  ELSE SortEntries(fs, dir, Tail(todo), InsertEntry(fs, dir, sorted, Head(todo)))

\* sorted(dir_path.iterdir(), key=...)
sorted_entries(fs, dir, order) == SortEntries(fs, dir, iterdir(fs, dir, order), << >>)

\* A manifest node.  src and children_src are not fields of the program's node:
\* src records the vault path of the entry the node was made from, children_src
\* the vault paths of the entries whose ids were appended to children.
Node(id, type, title, slug, content_path, children, assets, src, children_src) ==
  [ id |-> id, type |-> type, title |-> title, slug |-> slug,
    content_path |-> content_path, children |-> children, assets |-> assets,
    src |-> src, children_src |-> children_src ]

\* a slip: the route of a graphics directory without its closing slash
graphics_node_no_slash(dir_slug, is_root, assets, src) ==
  LET g_slug == IF ~is_root THEN dir_slug \o SLASH \o GRAPHICS_DIR_NAME
                ELSE GRAPHICS_DIR_NAME
  IN  Node(make_id(g_slug, "graphics"), "graphics", << >>, g_slug,
           SLASH \o g_slug, << >>, assets, src, << >>)

\* walk_directory, lines 178-186: the graphics node of a child directory
graphics_node(dir_slug, is_root, assets, src) ==
  LET g_slug == IF ~is_root THEN dir_slug \o SLASH \o GRAPHICS_DIR_NAME
                ELSE GRAPHICS_DIR_NAME
  IN  Node(make_id(g_slug, "graphics"), "graphics", << >>, g_slug,
           SLASH \o g_slug \o SLASH, << >>, assets, src, << >>)

\* walk_directory, lines 206-208: the slug of a markdown file
file_slug_of(dir_slug, is_root, file_stem) ==
  IF ~is_root THEN dir_slug \o SLASH \o slugify(file_stem) ELSE slugify(file_stem)

\* walk_directory, lines 208-212: the id of a markdown file, regenerated when
\* the first id is already a key of all_nodes
file_id_of(file_slug, all_nodes) ==
  LET file_id == make_id(file_slug, "file")
  IN  IF DictHas(all_nodes, file_id) THEN slugify(file_slug) \o FILE_SUFFIX
      ELSE file_id

\* all_nodes[node.id] = node; children_ids.append(node.id)
AddNode(acc, node) ==
  [ all_nodes    |-> DictPut(acc.all_nodes, node),
    children_ids |-> Append(acc.children_ids, node.id),
    children_src |-> Append(acc.children_src, node.src) ]

\* walk_directory, lines 174-189: a child graphics directory
walk_graphics(dir_slug, is_root, assets, entry, acc) ==
  IF assets = << >> THEN acc
  ELSE AddNode(acc, graphics_node(dir_slug, is_root, assets, entry))

\* a slip: the child's id is listed but its nodes are not taken over
walk_subdir_id_only(result, acc) ==
  IF result.ok
    THEN [ all_nodes    |-> acc.all_nodes,
           children_ids |-> Append(acc.children_ids, result.node.id),
           children_src |-> Append(acc.children_src, result.node.src) ]
    ELSE acc

\* walk_directory, lines 194-197: the result of the recursive call is spliced in
walk_subdir(result, acc) ==
  IF result.ok
    THEN [ all_nodes    |-> DictUpdate(acc.all_nodes, result.all_nodes),
           children_ids |-> Append(acc.children_ids, result.node.id),
           children_src |-> Append(acc.children_src, result.node.src) ]
    ELSE acc

\* walk_directory, lines 206-222: a markdown file that is not the marker
file_node_of(file_slug, file_stem, entry, all_nodes) ==
  Node(file_id_of(file_slug, all_nodes), "file", make_title(file_stem), file_slug,
       SLASH \o file_slug \o DOT_HTML, << >>, << >>, entry, << >>)

walk_file(dir_slug, is_root, name, entry, acc) ==
  AddNode(acc, file_node_of(file_slug_of(dir_slug, is_root, path_stem(name)),
                            path_stem(name), entry, acc.all_nodes))

RECURSIVE walk_directory(_, _, _, _)
RECURSIVE walk_entries(_, _, _, _, _, _)

\* walk_directory, lines 169-222: one turn of the loop over the sorted entries;
\* acc holds all_nodes and children_ids
walk_entry(fs, order, dir_path, dir_slug, name, acc) ==
  IF should_ignore(fs, Append(dir_path, name)) THEN acc
  ELSE IF is_dir(fs, Append(dir_path, name)) /\ is_graphics_dir(name)
    THEN walk_graphics(dir_slug, dir_path = << >>,
                       collect_assets(fs, Append(dir_path, name)),
                       Append(dir_path, name), acc)
  ELSE IF is_dir(fs, Append(dir_path, name))
    THEN walk_subdir(walk_directory(fs, order, Append(dir_path, name), << >>), acc)
  ELSE IF /\ is_file(fs, Append(dir_path, name))
          /\ str_lower(path_suffix(name)) = DOT_MD
          /\ str_lower(name) # README_MD
    THEN walk_file(dir_slug, dir_path = << >>, name, Append(dir_path, name), acc)
  ELSE acc

walk_entries(fs, order, dir_path, dir_slug, entries, acc) ==
  IF entries = << >> THEN acc
  ELSE walk_entries(fs, order, dir_path, dir_slug, Tail(entries),
                    walk_entry(fs, order, dir_path, dir_slug, Head(entries), acc))

\* walk_directory, lines 138-161 and 224-230: the directory node and the result
dir_result(dir_path, dir_slug, root_title, acc) ==
  LET is_root  == dir_path = << >>
      dir_node ==
        Node(IF is_root THEN ROOT_DIR_ID ELSE make_id(dir_slug, "directory"),
             "directory",
             IF is_root /\ root_title # << >> THEN root_title
             ELSE IF is_root THEN ROOT_TITLE
             ELSE make_title(PathName(dir_path)),
             dir_slug,
             IF is_root THEN ROOT_CONTENT_PATH ELSE SLASH \o dir_slug \o README_HTML,
             acc.children_ids, << >>, dir_path, acc.children_src)
  IN  [ ok |-> TRUE, node |-> dir_node, all_nodes |-> DictPut(acc.all_nodes, dir_node) ]

\* walk_directory, line 140
dir_slug_of(dir_path) == IF dir_path = << >> THEN ROOT ELSE slugify(path_str(dir_path))

\* walk_directory(dir_path, vault_root, root_title): [ok |-> FALSE] is None
walk_directory(fs, order, dir_path, root_title) ==
  IF has_readme(fs, dir_path, order) = NONE THEN [ ok |-> FALSE ]
  ELSE dir_result(dir_path, dir_slug_of(dir_path), root_title,
                  walk_entries(fs, order, dir_path, dir_slug_of(dir_path),
                               sorted_entries(fs, dir_path, order),
                               [ all_nodes |-> << >>, children_ids |-> << >>,
                                 children_src |-> << >> ]))

-----------------------------------------------------------------------------
(* manifest.py: generate_manifest *)

\* a slip: a vault without a root marker yields an empty manifest, not an exit
generate_manifest_lenient(fs, order, title) ==
  LET result == walk_directory(fs, order, << >>, title)
  IN  IF ~result.ok THEN [ ok |-> TRUE, rootId |-> ROOT_DIR_ID, items |-> << >> ]
      ELSE [ ok |-> TRUE, rootId |-> result.node.id, items |-> result.all_nodes ]

\* generate_manifest(vault_path, title): [ok |-> FALSE] is sys.exit(1)
generate_manifest(fs, order, title) ==
  IF ~is_dir(fs, << >>) THEN [ ok |-> FALSE ]
  ELSE LET result == walk_directory(fs, order, << >>, title)
       IN  IF ~result.ok THEN [ ok |-> FALSE ]
           ELSE [ ok |-> TRUE, rootId |-> result.node.id, items |-> result.all_nodes ]

-----------------------------------------------------------------------------
(* parser.py: the helpers that find a node's source in the vault *)

\* the components of a path written with slashes, as pathlib joins it
PathParts(s) == SelectSeq(str_split(s, "/"), LAMBDA part : part # << >>)

RECURSIVE FirstDirBySlug(_, _, _, _)
FirstDirBySlug(fs, dir, names, part) ==
  IF names = << >> THEN NONE
  ELSE IF is_dir(fs, Append(dir, Head(names))) /\ slugify(Head(names)) = part
    THEN Head(names)
    ELSE FirstDirBySlug(fs, dir, Tail(names), part)

NO_PATH == << NONE >>

\* _resolve_slug_to_dir(vault_path, slug): the loop over slug.split("/")
RECURSIVE ResolveParts(_, _, _, _)
ResolveParts(fs, order, current, parts) ==
  IF parts = << >> THEN current
  ELSE
    LET part      == Head(parts)
        candidate == IF part = << >> THEN current ELSE Append(current, part)
    IN  IF is_dir(fs, candidate)
          THEN ResolveParts(fs, order, candidate, Tail(parts))
          ELSE LET found == IF is_dir(fs, current)
                              THEN FirstDirBySlug(fs, current, iterdir(fs, current, order), part)
                              ELSE NONE
               IN  IF found # NONE
                     THEN ResolveParts(fs, order, Append(current, found), Tail(parts))
                     ELSE NO_PATH

\* _resolve_slug_to_dir(vault_path, slug): a vault path, or NO_PATH for None
resolve_slug_to_dir(fs, order, slug) == ResolveParts(fs, order, << >>, str_split(slug, "/"))

\* _find_source_md, lines 443-456: the loop over parent_parts
RECURSIVE FindParent(_, _, _, _)
FindParent(fs, order, parent_dir, parts) ==
  IF parts = << >> THEN parent_dir
  ELSE LET found == IF is_dir(fs, parent_dir)
                      THEN FirstDirBySlug(fs, parent_dir, iterdir(fs, parent_dir, order), Head(parts))
                      ELSE NONE
       IN  IF found # NONE
             THEN FindParent(fs, order, Append(parent_dir, found), Tail(parts))
             ELSE NO_PATH

RECURSIVE FirstMdBySlug(_, _, _, _)
FirstMdBySlug(fs, dir, names, filename_slug) ==
  IF names = << >> THEN NONE
  ELSE IF /\ is_file(fs, Append(dir, Head(names)))
          /\ str_lower(path_suffix(Head(names))) = DOT_MD
          /\ str_lower(Head(names)) # README_MD
          /\ slugify(path_stem(Head(names))) = filename_slug
    THEN Head(names)
    ELSE FirstMdBySlug(fs, dir, Tail(names), filename_slug)

\* _find_source_md(vault_path, slug): a vault path, or NO_PATH for None
find_source_md(fs, order, slug) ==
  LET parts         == str_split(slug, "/")
      filename_slug == parts[Len(parts)]
      parent_dir    == FindParent(fs, order, << >>, Slice(parts, 1, Len(parts) - 1))
  IN  IF parent_dir = NO_PATH \/ ~is_dir(fs, parent_dir) THEN NO_PATH
      ELSE LET found == FirstMdBySlug(fs, parent_dir, iterdir(fs, parent_dir, order),
                                      filename_slug)
           IN  IF found = NONE THEN NO_PATH ELSE Append(parent_dir, found)

\* _find_readme(directory): a vault path, or NO_PATH for None
find_readme(fs, order, directory) ==
  LET name == FirstReadme(fs, directory, iterdir(fs, directory, order))
  IN  IF name = NONE THEN NO_PATH ELSE Append(directory, name)

-----------------------------------------------------------------------------
(* parser.py (and renderer.py): the parser that create_parser configures.   *)
(* A document is the sequence of block tokens that mistune parses a         *)
(* markdown body into; an HTML fragment is a string.                        *)

HeadingBlock(text) == [ type |-> "heading", raw |-> text ]
HtmlBlock(html) == [ type |-> "block_html", raw |-> html ]
CodeBlock(code) == [ type |-> "block_code", raw |-> code ]

\* whether the string holds the pattern at index i, letter case apart
MatchesAt(s, i, pat) ==
  /\ i >= 1
  /\ i + Len(pat) - 1 <= Len(s)
  /\ \A k \in 1..Len(pat) : LowerOf[s[i + k - 1]] = pat[k]

\* the first index from i on where the pattern is, 0 when there is none
FindFrom(s, i, pat) ==
  LET hits == { k \in i..Len(s) : MatchesAt(s, k, pat) }
  IN  IF hits = {} THEN 0 ELSE CHOOSE k \in hits : \A h \in hits : k <= h

\* the first index from i on of a character of the set, 0 when there is none
FindChar(s, i, cs) ==
  LET hits == { k \in i..Len(s) : k >= 1 /\ s[k] \in cs }
  IN  IF hits = {} THEN 0 ELSE CHOOSE k \in hits : \A h \in hits : k <= h

\* the first index from i on of a character outside the set, Len(s) + 1 when
\* there is none
SkipChars(s, i, cs) ==
  LET hits == { k \in i..Len(s) : k >= 1 /\ s[k] \notin cs }
  IN  IF hits = {} THEN Len(s) + 1 ELSE CHOOSE k \in hits : \A h \in hits : k <= h

\* str(n) for n >= 0
RECURSIVE int_str(_)
int_str(n) ==
  IF n < 10 THEN << AsciiTable[OrdOf["0"] + n] >>
  ELSE int_str(n \div 10) \o << AsciiTable[OrdOf["0"] + (n % 10)] >>

\* re.sub(r'<[^>]+>', '', text): the index behind a tag that opens at i, 0 when
\* none does
TagEnd(s, i) ==
  IF s[i] # "<" THEN 0
  ELSE LET close == FindChar(s, i + 1, { ">" })
       IN  IF close > i + 1 THEN close + 1 ELSE 0

RECURSIVE StripTags(_, _)
StripTags(s, i) ==
  IF i > Len(s) THEN << >>
  ELSE (IF TagEnd(s, i) = 0 THEN << s[i] >> ELSE << >>)
       \o StripTags(s, IF TagEnd(s, i) = 0 THEN i + 1 ELSE TagEnd(s, i))

\* slugify_heading(text)
slugify_heading(text) ==
  LET t1 == str_lower(StripTags(text, 1))
      t2 == SubRuns(t1, CharSet \ (LowerSet \cup DigitSet \cup { "-" }), << "-" >>)
      t3 == SubRuns(t2, { "-" }, << "-" >>)
  IN  str_strip(t3, { "-" })

\* heading_slug_counts = {}
NoCounts == << >>

\* a slip: the suffix is the count before it is incremented
heading_id_stale(slug, counts) ==
  IF slug \in DOMAIN counts
    THEN slug \o << "-" >> \o int_str(counts[slug])
    ELSE slug

\* heading, lines 289-295: the id of a heading whose slug has the given count
heading_id(slug, counts) ==
  IF slug \in DOMAIN counts
    THEN slug \o << "-" >> \o int_str(counts[slug] + 1)
    ELSE slug

\* heading, lines 289-295: heading_slug_counts after a heading of the slug
heading_count(slug, counts) ==
  [ k \in (DOMAIN counts) \cup { slug } |->
      IF k # slug THEN counts[k]
      ELSE IF slug \in DOMAIN counts THEN counts[slug] + 1 ELSE 0 ]

\* heading, line 296, for level 1
heading_html(id, text) ==
  << "<", "h", "1", " ", "i", "d", "=", "\"" >> \o id
  \o << "\"", ">", "<", "a", " ", "c", "l", "a", "s", "s", "=", "\"", "h", "e",
     "a", "d", "i", "n", "g", "-", "a", "n", "c", "h", "o", "r", "\"", " ",
     "h", "r", "e", "f", "=", "\"", "#" >>
  \o id \o << "\"", " ", "d", "a", "t", "a", "-", "l", "i", "n", "k", ">" >> \o text
  \o << "<", "/", "a", ">", "<", "/", "h", "1", ">", "\n" >>

\* mistune.escape
escape_char(c) ==
  IF c = "&" THEN << "&", "a", "m", "p", ";" >>
  ELSE IF c = "<" THEN << "&", "l", "t", ";" >>
  ELSE IF c = ">" THEN << "&", "g", "t", ";" >>
  ELSE IF c = "\"" THEN << "&", "q", "u", "o", "t", ";" >>
  ELSE << c >>

RECURSIVE escape_text(_)
escape_text(s) ==
  IF s = << >> THEN << >> ELSE escape_char(Head(s)) \o escape_text(Tail(s))

\* block_code(code, info=None)
block_code(code) ==
  << "<", "d", "i", "v", " ", "c", "l", "a", "s", "s", "=", "\"", "c", "o",
     "d", "e", "-", "b", "l", "o", "c", "k", "\"", ">", "<", "b", "u", "t",
     "t", "o", "n", " ", "c", "l", "a", "s", "s", "=", "\"", "c", "o", "p",
     "y", "-", "b", "t", "n", "\"", " ", "a", "r", "i", "a", "-", "l", "a",
     "b", "e", "l", "=", "\"", "C", "o", "p", "y", " ", "c", "o", "d", "e",
     "\"", ">", "C", "o", "p", "y", "<", "/", "b", "u", "t", "t", "o", "n",
     ">", "<", "p", "r", "e", ">", "<", "c", "o", "d", "e", ">" >>
  \o escape_text(code)
  \o << "<", "/", "c", "o", "d", "e", ">", "<", "/", "p", "r", "e", ">", "<",
       "/", "d", "i", "v", ">", "\n" >>

\* the renderer after a block: the HTML so far, the heading ids given in this
\* document, and heading_slug_counts
render_heading(text, slug, r) ==
  [ html   |-> r.html \o heading_html(heading_id(slug, r.counts), text),
    ids    |-> Append(r.ids, heading_id(slug, r.counts)),
    counts |-> heading_count(slug, r.counts) ]

render_block(block, r) ==
  IF block.type = "heading"
    THEN render_heading(block.raw, slugify_heading(block.raw), r)
    ELSE [ r EXCEPT !.html = @ \o (IF block.type = "block_code"
                                     THEN block_code(block.raw)
                                     ELSE block.raw \o << "\n" >>) ]

RECURSIVE render_blocks(_, _)
render_blocks(blocks, r) ==
  IF blocks = << >> THEN r
  ELSE render_blocks(Tail(blocks), render_block(Head(blocks), r))

\* mistune.Markdown.__call__(md, text) under escape=False: raw HTML is passed
\* through, headings and code blocks go to the overridden renderers
markdown_call(doc, counts) ==
  render_blocks(doc, [ html |-> << >>, ids |-> << >>, counts |-> counts ])

\* _sanitized_call, lines 245-247: the index behind an element <tag ...> ...
\* </tag> that opens at i, 0 when none does
ElementEnd(s, i, open, close) ==
  IF ~MatchesAt(s, i, open) THEN 0
  ELSE LET gt == FindChar(s, i + Len(open), { ">" })
       IN  IF gt = 0 THEN 0
           ELSE LET end == FindFrom(s, gt + 1, close)
                IN  IF end = 0 THEN 0 ELSE end + Len(close)

RECURSIVE StripElements(_, _, _, _)
StripElements(s, i, open, close) ==
  IF i > Len(s) THEN << >>
  ELSE (IF ElementEnd(s, i, open, close) = 0 THEN << s[i] >> ELSE << >>)
       \o StripElements(s, IF ElementEnd(s, i, open, close) = 0
                             THEN i + 1 ELSE ElementEnd(s, i, open, close),
                        open, close)

WordSet == LowerSet \cup UpperSet \cup DigitSet \cup { "_" }

\* _sanitized_call, lines 249-250: the index behind an attribute
\* \s+on\w+\s*=\s*q[^q]*q that opens at i, 0 when none does
AttributeEnd(s, i, q) ==
  IF s[i] \notin SpaceSet THEN 0
  ELSE LET on   == SkipChars(s, i, SpaceSet)
           word == SkipChars(s, on + 2, WordSet)
           eq   == SkipChars(s, word, SpaceSet)
           quo  == SkipChars(s, eq + 1, SpaceSet)
           end  == FindChar(s, quo + 1, { q })
       IN  IF /\ MatchesAt(s, on, << "o", "n" >>)
              /\ word > on + 2
              /\ eq <= Len(s) /\ s[eq] = "="
              /\ quo <= Len(s) /\ s[quo] = q
              /\ end # 0
             THEN end + 1 ELSE 0

RECURSIVE StripAttributes(_, _, _)
StripAttributes(s, i, q) ==
  IF i > Len(s) THEN << >>
  ELSE (IF AttributeEnd(s, i, q) = 0 THEN << s[i] >> ELSE << >>)
       \o StripAttributes(s, IF AttributeEnd(s, i, q) = 0
                               THEN i + 1 ELSE AttributeEnd(s, i, q), q)

\* _sanitized_call, lines 245-247: the elements removed, in this order
ELEMENTS ==
  << [ open |-> << "<", "s", "t", "y", "l", "e" >>, close |-> << "<", "/", "s", "t", "y", "l", "e", ">" >> ],
     [ open |-> << "<", "s", "c", "r", "i", "p", "t" >>, close |-> << "<", "/", "s", "c", "r", "i", "p", "t", ">" >> ],
     [ open |-> << "<", "i", "f", "r", "a", "m", "e" >>, close |-> << "<", "/", "i", "f", "r", "a", "m", "e", ">" >> ] >>

\* _sanitized_call, lines 243-251: the five substitutions
sanitize(html) ==
  LET h1 == StripElements(html, 1, ELEMENTS[1].open, ELEMENTS[1].close)
      h2 == StripElements(h1, 1, ELEMENTS[2].open, ELEMENTS[2].close)
      h3 == StripElements(h2, 1, ELEMENTS[3].open, ELEMENTS[3].close)
      h4 == StripAttributes(h3, 1, "\"")
  IN  StripAttributes(h4, 1, "'")

\* _sanitized_call(self, text)
sanitized_call(doc, counts) ==
  [ markdown_call(doc, counts) EXCEPT !.html = sanitize(@) ]

\* md(content), lines 385 and 420: a call looks __call__ up on the type of md,
\* so the attribute that line 254 sets on the instance is not the one that runs
md_call(content, counts) == markdown_call(content, counts)

-----------------------------------------------------------------------------
(* parser.py: the three jobs of parse_vault.  The output tree is a set of   *)
(* files: path is the sequence of names below the output directory, kind is *)
(* "manifest", "html", "asset" or "stale" (left by an earlier run), content *)
(* is the text of an HTML fragment.  Three fields are not in the file but   *)
(* remembered about it: from is the vault path of the source that was       *)
(* rendered or copied, ids are the heading ids of the fragment in document  *)
(* order, nth is the number of documents md had rendered before this one.   *)

OutFile(path, kind, from) ==
  [ path |-> path, kind |-> kind, from |-> from,
    content |-> << >>, ids |-> << >>, nth |-> 0 ]

\* write_text / copy2: the file at the path is replaced
WriteOut(out, f) == { g \in out : g.path # f.path } \cup { f }

\* the fragment that md returned for the source, as a file at the path
HtmlFile(path, from, r, nth) ==
  [ path |-> path, kind |-> "html", from |-> from,
    content |-> r.html, ids |-> r.ids, nth |-> nth ]

\* the md object that create_parser returns: heading_slug_counts is the dict of
\* the closure of heading, calls counts the documents rendered
NewParser == [ heading_slug_counts |-> NoCounts, calls |-> 0 ]

\* read_text, extract_frontmatter, md(content), write_text: lines 383-389 and
\* 418-424; st is the output tree and the md object
render_page(text, src, out_file, st) ==
  LET r == md_call(text[src], st.md.heading_slug_counts)
  IN  [ out |-> WriteOut(st.out, HtmlFile(out_file, src, r, st.md.calls)),
        md  |-> [ heading_slug_counts |-> r.counts, calls |-> st.md.calls + 1 ] ]

\* copy_graphics, lines 357-361: the assets of one graphics node
RECURSIVE CopyAssets(_, _, _, _, _)
CopyAssets(fs, src_dir, slug, assets, out) ==
  IF assets = << >> THEN out
  ELSE LET asset    == Head(assets)
           src_file == Append(src_dir, asset)
           dst_file == Append(PathParts(slug), asset)
       IN  CopyAssets(fs, src_dir, slug, Tail(assets),
                      IF is_file(fs, src_file)
                        THEN WriteOut(out, OutFile(dst_file, "asset", src_file))
                        ELSE out)

\* copy_graphics(manifest, vault_path, output_path)
RECURSIVE copy_graphics(_, _, _, _)
copy_graphics(fs, order, items, out) ==
  IF items = << >> THEN out
  ELSE LET node    == Head(items)
           src_dir == resolve_slug_to_dir(fs, order, node.slug)
       IN  IF node.type # "graphics" \/ src_dir = NO_PATH \/ ~is_dir(fs, src_dir)
             THEN copy_graphics(fs, order, Tail(items), out)
             ELSE copy_graphics(fs, order, Tail(items),
                                CopyAssets(fs, src_dir, node.slug, node.assets, out))

\* parse_file_pages, lines 374-381: the source file of a file node
file_source(fs, order, slug) ==
  LET src_file == PathParts(slug \o DOT_MD)
  IN  IF is_file(fs, src_file) THEN src_file ELSE find_source_md(fs, order, slug)

\* parse_file_pages(manifest, vault_path, output_path, md)
RECURSIVE parse_file_pages(_, _, _, _, _)
parse_file_pages(fs, order, text, items, st) ==
  IF items = << >> THEN st
  ELSE LET node     == Head(items)
           src_file == file_source(fs, order, node.slug)
           out_file == PathParts(str_lstrip(node.content_path, { "/" }))
       IN  parse_file_pages(fs, order, text, Tail(items),
                            IF node.type # "file" \/ src_file = NO_PATH
                              THEN st
                              ELSE render_page(text, src_file, out_file, st))

\* parse_readme_pages, lines 402-416: the marker file of a directory node
readme_source(fs, order, slug) ==
  LET src_dir == IF slug = ROOT THEN << >> ELSE resolve_slug_to_dir(fs, order, slug)
  IN  IF src_dir = NO_PATH THEN NO_PATH ELSE find_readme(fs, order, src_dir)

\* a slip: a directory whose marker is not found ends the job
RECURSIVE parse_readme_pages_abort(_, _, _, _, _)
parse_readme_pages_abort(fs, order, text, items, st) ==
  IF items = << >> THEN st
  ELSE LET node        == Head(items)
           readme_file == readme_source(fs, order, node.slug)
           out_file    == PathParts(str_lstrip(node.content_path, { "/" }))
       IN  IF node.type = "directory" /\ readme_file = NO_PATH THEN st
           ELSE parse_readme_pages_abort(fs, order, text, Tail(items),
                                         IF node.type # "directory" THEN st
                                         ELSE render_page(text, readme_file, out_file, st))

\* parse_readme_pages(manifest, vault_path, output_path, md)
RECURSIVE parse_readme_pages(_, _, _, _, _)
parse_readme_pages(fs, order, text, items, st) ==
  IF items = << >> THEN st
  ELSE LET node        == Head(items)
           readme_file == readme_source(fs, order, node.slug)
           out_file    == PathParts(str_lstrip(node.content_path, { "/" }))
       IN  parse_readme_pages(fs, order, text, Tail(items),
                              IF node.type # "directory" \/ readme_file = NO_PATH
                                THEN st
                                ELSE render_page(text, readme_file, out_file, st))

\* parse_vault(manifest, vault_path, output_path): the output tree and the md
\* object after the three jobs
parse_vault(fs, order, text, items, out) ==
  LET job1 == [ out |-> copy_graphics(fs, order, items, out), md |-> NewParser ]
      job2 == parse_file_pages(fs, order, text, items, job1)
  IN  parse_readme_pages(fs, order, text, items, job2)

-----------------------------------------------------------------------------
(* resolver.py (and its copy in parser.py): the indexes and the resolution. *)
(* An index is a function from its keys (strings) to its values.            *)

EmptyIndex == << >>

\* index[key] = value
IndexPut(index, key, value) ==
  [ k \in (DOMAIN index) \cup { key } |-> IF k = key THEN value ELSE index[k] ]

\* index.setdefault(key, []).append(node)
IndexAppend(index, key, node) ==
  IndexPut(index, key, IF key \in DOMAIN index THEN Append(index[key], node) ELSE << node >>)

\* build_title_index(manifest)
RECURSIVE build_title_index(_, _)
build_title_index(items, index) ==
  IF items = << >> THEN index
  ELSE build_title_index(Tail(items),
         IF Head(items).type = "graphics" THEN index
         ELSE IndexAppend(index, str_lower(Head(items).title), Head(items)))

\* build_slug_index(manifest): a later node of the same slug takes the key
RECURSIVE build_slug_index(_, _)
build_slug_index(items, index) ==
  IF items = << >> THEN index
  ELSE build_slug_index(Tail(items),
         IF Head(items).type = "graphics" THEN index
         ELSE IndexPut(index, Head(items).slug, Head(items)))

\* a slip: a filename that is in the index keeps its first route
RECURSIVE IndexAssets_first(_, _, _)
IndexAssets_first(assets, content_path, index) ==
  IF assets = << >> THEN index
  ELSE IndexAssets_first(Tail(assets), content_path,
                         IF Head(assets) \in DOMAIN index THEN index
                         ELSE IndexPut(index, Head(assets), content_path))

\* build_asset_index, lines 44-47: the assets of one graphics node
RECURSIVE IndexAssets(_, _, _)
IndexAssets(assets, content_path, index) ==
  IF assets = << >> THEN index
  ELSE IndexAssets(Tail(assets), content_path, IndexPut(index, Head(assets), content_path))

\* build_asset_index(manifest): on duplicate filenames the last wins
RECURSIVE build_asset_index(_, _)
build_asset_index(items, index) ==
  IF items = << >> THEN index
  ELSE build_asset_index(Tail(items),
         IF Head(items).type = "graphics"
           THEN IndexAssets(Head(items).assets, Head(items).content_path, index)
           ELSE index)

HASH == << "#" >>
DEFAULT_GRAPHICS == << "/", "g", "r", "a", "p", "h", "i", "c", "s", "/" >>

\* resolve_wiki_link, lines 61-65: target.split("|", 1); no display is << >>
target_part_of(target) ==
  IF Contains(target, "|") THEN Slice(target, 1, FirstIdx(target, "|") - 1) ELSE target

display_of(target) ==
  IF Contains(target, "|") THEN Slice(target, FirstIdx(target, "|") + 1, Len(target))
  ELSE << >>

\* display or text
display_or(display, text) == IF display # << >> THEN display ELSE text

\* resolve_wiki_link, line 72
slug_key_of(target_clean) == str_lower(str_replace(target_clean, " ", << "-" >>))

\* a slip: any title match resolves, also when several nodes share the title
title_hit_first(title_index, target_lower) == target_lower \in DOMAIN title_index

\* resolve_wiki_link, lines 79-81: the title strategy applies
title_hit(title_index, target_lower) ==
  /\ target_lower \in DOMAIN title_index
  /\ Len(title_index[target_lower]) = 1

\* a slip: the title strategy tried before the slug strategy
resolve_clean_title_first(target_clean, display, title_index, slug_index) ==
  IF title_hit(title_index, str_lower(target_clean))
    THEN << title_index[str_lower(target_clean)][1].content_path,
            display_or(display, title_index[str_lower(target_clean)][1].title) >>
  ELSE IF slug_key_of(target_clean) \in DOMAIN slug_index
    THEN << slug_index[slug_key_of(target_clean)].content_path,
            display_or(display, slug_index[slug_key_of(target_clean)].title) >>
  ELSE IF slugify(target_clean) \in DOMAIN slug_index
    THEN << slug_index[slugify(target_clean)].content_path,
            display_or(display, slug_index[slugify(target_clean)].title) >>
  ELSE << HASH, display_or(display, target_clean) >>

\* resolve_wiki_link, lines 70-96: the strategies in their order
resolve_clean(target_clean, display, title_index, slug_index) ==
  IF slug_key_of(target_clean) \in DOMAIN slug_index
    THEN << slug_index[slug_key_of(target_clean)].content_path,
            display_or(display, slug_index[slug_key_of(target_clean)].title) >>
  ELSE IF title_hit(title_index, str_lower(target_clean))
    THEN << title_index[str_lower(target_clean)][1].content_path,
            display_or(display, title_index[str_lower(target_clean)][1].title) >>
  ELSE IF slugify(target_clean) \in DOMAIN slug_index
    THEN << slug_index[slugify(target_clean)].content_path,
            display_or(display, slug_index[slugify(target_clean)].title) >>
  ELSE << HASH, display_or(display, target_clean) >>

\* resolve_wiki_link(target, title_index, slug_index): << href, display >>
resolve_wiki_link(target, title_index, slug_index) ==
  resolve_clean(str_strip(target_part_of(target), SpaceSet), display_of(target),
                title_index, slug_index)

\* a slip: the directory prefix is kept
embed_basename_whole(filename) == filename

\* resolve_image_embed, line 116
embed_basename(filename) ==
  IF Contains(filename, "/") THEN Slice(filename, LastIdx(filename, "/") + 1, Len(filename))
  ELSE filename

\* resolve_image_embed, lines 117-120
embed_path(basename, asset_index) ==
  IF basename \in DOMAIN asset_index THEN asset_index[basename] \o basename
  ELSE DEFAULT_GRAPHICS \o basename

\* resolve_image_embed(filename, asset_index)
resolve_image_embed(filename, asset_index) ==
  embed_path(embed_basename(str_strip(filename, SpaceSet)), asset_index)

-----------------------------------------------------------------------------
(* parser.py (and renderer.py): the inline tokens of the two plugins.  The  *)
(* inline parser keeps a list of rule names; at each position of a text the *)
(* first rule of the list whose pattern matches there is taken, and its     *)
(* parse function returns the position after the token, or nothing.         *)

\* the rule of the inline parser that the plugins are placed in front of
DEFAULT_RULES == << "link" >>

\* a slip: the rule is added behind the others
register_last(rules, name, before) == Append(rules, name)

\* md.inline.register(name, pattern, func, before=before)
register(rules, name, before) ==
  LET k == CHOOSE i \in 1..Len(rules) : rules[i] = before
  IN  Slice(rules, 1, k - 1) \o << name >> \o Slice(rules, k, Len(rules))

\* create_markdown(plugins=[..., plugin_wiki_embed, plugin_wiki_link])
inline_rules ==
  register(register(DEFAULT_RULES, "wiki_embed", "link"), "wiki_link", "link")

\* \[\[(?P<target>[^\]]+)\]\] at i: the position after the match, 0 without one
wiki_pattern(s, i) ==
  IF ~MatchesAt(s, i, << "[", "[" >>) THEN 0
  ELSE LET close == FindChar(s, i + 2, { "]" })
       IN  IF close > i + 2 /\ MatchesAt(s, close, << "]", "]" >>) THEN close + 2 ELSE 0

\* WIKI_EMBED_PATTERN at i
wiki_embed_pattern(s, i) ==
  IF i <= Len(s) /\ s[i] = "!" THEN wiki_pattern(s, i + 1) ELSE 0

\* the pattern of the link rule, !?\[, at i
link_pattern(s, i) ==
  IF MatchesAt(s, i, << "[" >>) THEN i + 1
  ELSE IF MatchesAt(s, i, << "!", "[" >>) THEN i + 2 ELSE 0

\* the position of the "]" that closes the label opened before i, 0 without one
RECURSIVE label_end(_, _, _)
label_end(s, i, depth) ==
  IF i > Len(s) THEN 0
  ELSE IF s[i] = "]" /\ depth = 0 THEN i
  ELSE label_end(s, i + 1, IF s[i] = "[" THEN depth + 1
                           ELSE IF s[i] = "]" THEN depth - 1 ELSE depth)

\* the link rule's parse function on [label](url) and ![label](url): the
\* token, or a token of type "none" when the text is no link
parse_link(s, i) ==
  LET open  == link_pattern(s, i)
      close == label_end(s, open, 0)
      paren == IF close > 0 /\ MatchesAt(s, close + 1, << "(" >>)
                 THEN FindChar(s, close + 2, { ")" }) ELSE 0
  IN  IF paren = 0 THEN [ type |-> "none", raw |-> << >>, url |-> << >>, start |-> i, end |-> i ]
      ELSE [ type  |-> IF s[i] = "!" THEN "image" ELSE "link",
             raw   |-> Slice(s, open, close - 1),
             url   |-> Slice(s, close + 2, paren - 1),
             start |-> i, end |-> paren + 1 ]

\* the position after the match of a rule's pattern at i, 0 without one
pattern_end(rule, s, i) ==
  IF rule = "wiki_embed" THEN wiki_embed_pattern(s, i)
  ELSE IF rule = "wiki_link" THEN wiki_pattern(s, i)
  ELSE link_pattern(s, i)

\* the first rule of the list whose pattern matches at i, "text" without one
first_rule(rules, s, i) ==
  LET hits == { k \in 1..Len(rules) : pattern_end(rules[k], s, i) > 0 }
  IN  IF hits = {} THEN "text" ELSE rules[CHOOSE k \in hits : \A h \in hits : k <= h]

\* parse_wiki_embed, parse_wiki_link and the link rule: the token at i; a rule
\* that returns nothing leaves one character of text
token_at(rules, s, i) ==
  LET rule == first_rule(rules, s, i)
      text == [ type |-> "text", raw |-> << s[i] >>, url |-> << >>, start |-> i, end |-> i + 1 ]
  IN  IF rule = "wiki_embed"
        THEN [ type |-> "wiki_embed", raw |-> Slice(s, i + 3, wiki_embed_pattern(s, i) - 3),
               url |-> << >>, start |-> i, end |-> wiki_embed_pattern(s, i) ]
      ELSE IF rule = "wiki_link"
        THEN [ type |-> "wiki_link", raw |-> Slice(s, i + 2, wiki_pattern(s, i) - 3),
               url |-> << >>, start |-> i, end |-> wiki_pattern(s, i) ]
      ELSE IF rule = "link" /\ parse_link(s, i).type # "none" THEN parse_link(s, i)
      ELSE text

\* the tokens of a text from position i on
RECURSIVE inline_parse(_, _, _)
inline_parse(rules, s, i) ==
  IF i > Len(s) THEN << >>
  ELSE << token_at(rules, s, i) >> \o inline_parse(rules, s, token_at(rules, s, i).end)

\* render_wiki_embed(text)
render_wiki_embed(text, asset_index) ==
  LET filename == IF Contains(text, "|") THEN Slice(text, 1, FirstIdx(text, "|") - 1) ELSE text
      src      == resolve_image_embed(filename, asset_index)
      basename == IF Contains(filename, "/")
                    THEN Slice(filename, LastIdx(filename, "/") + 1, Len(filename))
                    ELSE filename
      alt      == IF Contains(basename, ".") THEN Slice(basename, 1, LastIdx(basename, ".") - 1)
                  ELSE basename
  IN  << "<", "i", "m", "g", " ", "s", "r", "c", "=", "\"" >> \o src
        \o << "\"", " ", "a", "l", "t", "=", "\"" >> \o alt \o << "\"", " ", "/", ">" >>

\* render_wiki_link(text)
render_wiki_link(text, title_index, slug_index) ==
  LET r == resolve_wiki_link(text, title_index, slug_index)
  IN  << "<", "a", " ", "h", "r", "e", "f", "=", "\"" >> \o r[1] \o << "\"", ">" >> \o r[2]
        \o << "<", "/", "a", ">" >>

\* the renderer's method for a token
render_token(tok, items) ==
  IF tok.type = "wiki_embed"
    THEN render_wiki_embed(tok.raw, build_asset_index(items, EmptyIndex))
  ELSE IF tok.type = "wiki_link"
    THEN render_wiki_link(tok.raw, build_title_index(items, EmptyIndex),
                          build_slug_index(items, EmptyIndex))
  ELSE IF tok.type = "image"
    THEN << "<", "i", "m", "g", " ", "s", "r", "c", "=", "\"" >> \o tok.url
           \o << "\"", " ", "a", "l", "t", "=", "\"" >> \o tok.raw \o << "\"", " ", "/", ">" >>
  ELSE IF tok.type = "link"
    THEN << "<", "a", " ", "h", "r", "e", "f", "=", "\"" >> \o tok.url \o << "\"", ">" >> \o tok.raw
           \o << "<", "/", "a", ">" >>
  ELSE tok.raw

\* the inline text of a page rendered: its tokens and the HTML of each
render_inline(s, items) ==
  LET tokens == inline_parse(inline_rules, s, 1)
  IN  [ tokens |-> tokens,
        html   |-> [ k \in 1..Len(tokens) |-> render_token(tokens[k], items) ] ]

-----------------------------------------------------------------------------
(* The vaults the build is run on *)

RootDir == [ path |-> << >>, kind |-> "dir" ]

\* the entries a vault may hold below its root
Universe ==
  { [ path |-> << << "R", "E", "A", "D", "M", "E", ".", "m", "d" >> >>, kind |-> "file" ],
    [ path |-> << << "B", "!", ".", "m", "d" >> >>, kind |-> "file" ],
    [ path |-> << << "b", ".", "m", "d" >> >>, kind |-> "file" ],
    [ path |-> << << "x", ".", "m", "d" >> >>, kind |-> "file" ],
    [ path |-> << << ".", "D", "S", "_", "S", "t", "o", "r", "e" >> >>, kind |-> "file" ],
    [ path |-> << << "x" >> >>, kind |-> "dir" ],
    [ path |-> << << "x" >>, << "r", "e", "a", "d", "m", "e", ".", "m", "d" >> >>, kind |-> "file" ],
    [ path |-> << << "x" >>, << "B", "!", ".", "m", "d" >> >>, kind |-> "file" ],
    [ path |-> << << "x" >>, << "b", ".", "m", "d" >> >>, kind |-> "file" ],
    [ path |-> << << "x" >>, << "g", "r", "a", "p", "h", "i", "c", "s" >> >>, kind |-> "dir" ],
    [ path |-> << << "x" >>, << "g", "r", "a", "p", "h", "i", "c", "s" >>, << "a", ".", "p", "n", "g" >> >>, kind |-> "file" ],
    [ path |-> << << "y" >> >>, kind |-> "dir" ],
    [ path |-> << << "y" >>, << "R", "e", "a", "d", "M", "e", ".", "m", "d" >> >>, kind |-> "file" ],
    [ path |-> << << "y" >>, << "b", ".", "m", "d" >> >>, kind |-> "file" ],
    [ path |-> << << "y" >>, << "x" >> >>, kind |-> "dir" ],
    [ path |-> << << "y" >>, << "x" >>, << "R", "E", "A", "D", "M", "E", ".", "m", "d" >> >>, kind |-> "file" ],
    [ path |-> << << "g", "r", "a", "p", "h", "i", "c", "s" >> >>, kind |-> "dir" ],
    [ path |-> << << "g", "r", "a", "p", "h", "i", "c", "s" >>, << "a", ".", "p", "n", "g" >> >>, kind |-> "file" ],
    [ path |-> << << "g", "r", "a", "p", "h", "i", "c", "s" >>, << "n", ".", "t", "x", "t" >> >>, kind |-> "file" ],
    [ path |-> << << "G", "r", "a", "p", "h", "i", "c", "s" >> >>, kind |-> "dir" ],
    [ path |-> << << "G", "r", "a", "p", "h", "i", "c", "s" >>, << "a", ".", "p", "n", "g" >> >>, kind |-> "file" ],
    [ path |-> << << ".", "o", "b", "s", "i", "d", "i", "a", "n" >> >>, kind |-> "dir" ],
    [ path |-> << << ".", "o", "b", "s", "i", "d", "i", "a", "n" >>, << "R", "E", "A", "D", "M", "E", ".", "m", "d" >> >>, kind |-> "file" ] }

\* the most entries of the Universe in an enumerated vault
MaxEntries == 4

\* an entry may be added to a vault that holds its parent directory
CanAdd(S, e) ==
  /\ e \notin S
  /\ \/ Len(e.path) = 1
     \/ [ path |-> PathParent(e.path), kind |-> "dir" ] \in S

RECURSIVE VaultsOfSize(_)
VaultsOfSize(k) ==
  IF k = 0 THEN { {} }
  ELSE { S \cup { e } : <<S, e>> \in { p \in VaultsOfSize(k - 1) \X Universe : CanAdd(p[1], p[2]) } }

SmallVaults == UNION { { S \cup { RootDir } : S \in VaultsOfSize(k) } : k \in 0..MaxEntries }

\* the whole Universe, and a vault path that is a file or does not exist
FullVault == Universe \cup { RootDir }
NotADirectory == { [ path |-> << >>, kind |-> "file" ] }
Missing == {}

\* a root with two markers, which a case-sensitive file system can hold
TwoMarkers ==
  { RootDir,
    [ path |-> << << "R", "E", "A", "D", "M", "E", ".", "m", "d" >> >>, kind |-> "file" ],
    [ path |-> << << "r", "e", "a", "d", "m", "e", ".", "m", "d" >> >>, kind |-> "file" ] }

\* a nested directory whose name starts with an underscore, with a page and
\* an image of its own
UnderscoreVault ==
  { RootDir,
    [ path |-> << << "R", "E", "A", "D", "M", "E", ".", "m", "d" >> >>, kind |-> "file" ],
    [ path |-> << << "x" >> >>, kind |-> "dir" ],
    [ path |-> << << "x" >>, << "r", "e", "a", "d", "m", "e", ".", "m", "d" >> >>, kind |-> "file" ],
    [ path |-> << << "x" >>, << "_", "y" >> >>, kind |-> "dir" ],
    [ path |-> << << "x" >>, << "_", "y" >>, << "R", "E", "A", "D", "M", "E", ".", "m", "d" >> >>, kind |-> "file" ],
    [ path |-> << << "x" >>, << "_", "y" >>, << "b", ".", "m", "d" >> >>, kind |-> "file" ],
    [ path |-> << << "x" >>, << "_", "y" >>, << "g", "r", "a", "p", "h", "i", "c", "s" >> >>, kind |-> "dir" ],
    [ path |-> << << "x" >>, << "_", "y" >>, << "g", "r", "a", "p", "h", "i", "c", "s" >>, << "a", ".", "p", "n", "g" >> >>, kind |-> "file" ],
    [ path |-> << << "x" >>, << "b", ".", "m", "d" >> >>, kind |-> "file" ] }

\* a directory with two pages whose names slugify alike
CollidingVault ==
  { RootDir,
    [ path |-> << << "R", "E", "A", "D", "M", "E", ".", "m", "d" >> >>, kind |-> "file" ],
    [ path |-> << << "x" >> >>, kind |-> "dir" ],
    [ path |-> << << "x" >>, << "r", "e", "a", "d", "m", "e", ".", "m", "d" >> >>, kind |-> "file" ],
    [ path |-> << << "x" >>, << "B", "!", ".", "m", "d" >> >>, kind |-> "file" ],
    [ path |-> << << "x" >>, << "b", ".", "m", "d" >> >>, kind |-> "file" ] }

\* a directory named as the slug of the root
RootNamedVault ==
  { RootDir,
    [ path |-> << << "R", "E", "A", "D", "M", "E", ".", "m", "d" >> >>, kind |-> "file" ],
    [ path |-> << << "b", ".", "m", "d" >> >>, kind |-> "file" ],
    [ path |-> << << "r", "o", "o", "t" >> >>, kind |-> "dir" ],
    [ path |-> << << "r", "o", "o", "t" >>, << "R", "E", "A", "D", "M", "E", ".", "m", "d" >> >>, kind |-> "file" ],
    [ path |-> << << "r", "o", "o", "t" >>, << "x", ".", "m", "d" >> >>, kind |-> "file" ] }

Vaults == SmallVaults \cup { FullVault, NotADirectory, Missing, TwoMarkers, UnderscoreVault,
                           CollidingVault, RootNamedVault }

Orders == { "asc", "desc" }

\* the vaults whose manifests links and embeds are resolved against: a base,
\* with every choice among the optional pages, or with a second image
ResolveBase ==
  { RootDir,
    [ path |-> << << "R", "E", "A", "D", "M", "E", ".", "m", "d" >> >>, kind |-> "file" ],
    [ path |-> << << "x" >> >>, kind |-> "dir" ],
    [ path |-> << << "x" >>, << "r", "e", "a", "d", "m", "e", ".", "m", "d" >> >>, kind |-> "file" ],
    [ path |-> << << "g", "r", "a", "p", "h", "i", "c", "s" >> >>, kind |-> "dir" ],
    [ path |-> << << "g", "r", "a", "p", "h", "i", "c", "s" >>, << "a", ".", "p", "n", "g" >> >>, kind |-> "file" ],
    [ path |-> << << "g", "r", "a", "p", "h", "i", "c", "s" >>, << "c", ".", "p", "n", "g" >> >>, kind |-> "file" ],
    [ path |-> << << "x" >>, << "g", "r", "a", "p", "h", "i", "c", "s" >> >>, kind |-> "dir" ] }

\* the optional pages
ResolvePages ==
  { [ path |-> << << "B", "!", ".", "m", "d" >> >>, kind |-> "file" ],
    [ path |-> << << "b", " ", "x", ".", "m", "d" >> >>, kind |-> "file" ],
    [ path |-> << << "x" >>, << "b", ".", "m", "d" >> >>, kind |-> "file" ],
    [ path |-> << << "x" >>, << "B", "!", ".", "m", "d" >> >>, kind |-> "file" ],
    [ path |-> << << "x" >>, << "b", "!", ".", "m", "d" >> >>, kind |-> "file" ] }

\* an image of a name that the root graphics directory holds too
ResolveAssets ==
  { [ path |-> << << "x" >>, << "g", "r", "a", "p", "h", "i", "c", "s" >>, << "a", ".", "p", "n", "g" >> >>, kind |-> "file" ] }

ResolveVaults ==
  { ResolveBase \cup S : S \in SUBSET ResolvePages } \cup { ResolveBase \cup ResolveAssets }

\* the longest wiki-link target, before its display override
MaxTargetLen == 3

TargetChars == { "b", "B", "x", "!", " ", "/" }

RECURSIVE StringsOfLen(_, _)
StringsOfLen(chars, n) ==
  IF n = 0 THEN { << >> }
  ELSE { Append(t, c) : t \in StringsOfLen(chars, n - 1), c \in chars }

\* what follows the target inside [[...]]: nothing, an empty override, an override
Overrides == { << >>, << "|" >>, << "|", "B", " ", "|" >> }

\* the text between [[ and ]]: WIKI_LINK_PATTERN matches one character or more
Targets ==
  { t \o o : t \in UNION { StringsOfLen(TargetChars, n) : n \in 0..MaxTargetLen },
             o \in Overrides } \ { << >> }

\* the embedded filenames: a base name, after a directory prefix or spaces
EmbedPrefixes == { << >>, << " " >>, << "/" >>, << "x", "/" >>, << "x", "/", "g", "r", "a", "p", "h", "i", "c", "s", "/" >>, << "b", " ", "/" >> }
EmbedBases == { << "a", ".", "p", "n", "g" >>, << "c", ".", "p", "n", "g" >>, << "m", ".", "p", "n", "g" >>, << >> }
EmbedNames == { pre \o base \o post : pre \in EmbedPrefixes, base \in EmbedBases,
                                      post \in { << >>, << " " >> } }

\* the vaults whose pages are rendered with every document: two pages, one
\* for each of the two parse jobs or both for the last
RenderVaults ==
  { { RootDir,
      [ path |-> << << "R", "E", "A", "D", "M", "E", ".", "m", "d" >> >>, kind |-> "file" ],
      [ path |-> << << "b", ".", "m", "d" >> >>, kind |-> "file" ] },
    { RootDir,
      [ path |-> << << "R", "E", "A", "D", "M", "E", ".", "m", "d" >> >>, kind |-> "file" ],
      [ path |-> << << "x" >> >>, kind |-> "dir" ],
      [ path |-> << << "x" >>, << "r", "e", "a", "d", "m", "e", ".", "m", "d" >> >>, kind |-> "file" ] } }

\* the most headings in a document
MaxHeadings == 3

HeadingTexts == { << "F", "o", "o" >>, << "F", "o", "o", " ", "1" >> }

\* raw HTML that the sanitizer is written for, each a block of its own
SCRIPT_HTML == << "<", "s", "c", "r", "i", "p", "t", ">", "a", "l", "e", "r", "t", "(",
       "1", ")", "<", "/", "s", "c", "r", "i", "p", "t", ">" >>
UnsafeHtml ==
  { SCRIPT_HTML,
    << "<", "s", "t", "y", "l", "e", ">", "a", "<", "/", "s", "t", "y", "l",
       "e", ">" >>,
    << "<", "i", "f", "r", "a", "m", "e", " ", "s", "r", "c", "=", "\"", "a",
       "\"", ">", "<", "/", "i", "f", "r", "a", "m", "e", ">" >>,
    << "<", "d", "i", "v", " ", "o", "n", "c", "l", "i", "c", "k", "=", "\"",
       "a", "l", "e", "r", "t", "(", "1", ")", "\"", ">", "a", "<", "/",
       "d", "i", "v", ">" >> }

Documents ==
  { [ i \in 1..Len(t) |-> HeadingBlock(t[i]) ] :
      t \in UNION { [ 1..n -> HeadingTexts ] : n \in 0..MaxHeadings } }
  \cup { << HtmlBlock(h) >> : h \in UnsafeHtml }
  \cup { << CodeBlock(SCRIPT_HTML \o << "\n" >>) >> }

-----------------------------------------------------------------------------
(* build.py *)

DEFAULT_TITLE == << "D", "i", "g", "i", " ", "G", "a", "r", "d", "e", "n" >>
MANIFEST_JSON == << "m", "a", "n", "i", "f", "e", "s", "t", ".", "j", "s", "o", "n" >>
OLD_HTML == << "o", "l", "d", ".", "h", "t", "m", "l" >>
B_HTML == << "b", ".", "h", "t", "m", "l" >>

\* what an earlier run may have left in the output directory
StaleOutput ==
  { OutFile(<< MANIFEST_JSON >>, "stale", << >>),
    OutFile(<< OLD_HTML >>, "stale", << >>),
    OutFile(<< B_HTML >>, "stale", << >>) }

\* the output directory that --output or --spa names, seen from the vault
OutputRoots == { "apart", "vault", "above" }

VAULT_NAME == << "v", "a", "u", "l", "t" >>

\* the files of the vault as files of the output directory, when the output
\* directory is the vault or holds it
VaultAsOutput(vault, where) ==
  { OutFile(IF where = "above" THEN << VAULT_NAME >> \o e.path ELSE e.path, "stale", << >>) :
      e \in { x \in vault : x.kind = "file" /\ x.path # << >> } }

VARIABLES
  fs,            \* the source vault
  text,          \* the markdown body of each .md file of the vault
  order,         \* the order in which the operating system lists a directory
  spa,           \* whether --spa was given
  output,        \* where the output directory lies: apart from the vault, the vault
                 \* itself, or a directory above the vault
  pc,            \* where build() is
  exit_code,     \* the exit status: -1 while running, 0 or 1 at the end
  manifest,      \* the manifest dict held in memory
  out,           \* the files of the output directory
  out_exists,    \* whether the output directory exists
  prior,         \* the files of the output directory before the run
  spa_manifest,  \* the file <spa_root>/manifest.json, outside the output directory
  written,       \* the output paths this run has written
  md,            \* the parser that parse_vault created
  query,         \* the link or embed the renderer is resolving
  answer         \* what the resolver returned for it

vars == << fs, text, prior, output, order, spa, pc, exit_code, manifest, out, out_exists, spa_manifest,
           written, md, query, answer >>

NoManifest == [ ok |-> FALSE ]
NoQuery == [ kind |-> "none" ]
NoAnswer == << >>

\* the .md files of a vault
MdFiles(vault) ==
  { e.path : e \in { x \in vault : /\ x.kind = "file" /\ x.path # << >>
                              /\ str_lower(path_suffix(PathName(x.path))) = DOT_MD } }

\* every page is a heading that says the file's name
NamedText(vault) ==
  [ p \in MdFiles(vault) |-> << HeadingBlock(path_stem(PathName(p))) >> ]

Init ==
  /\ fs \in Vaults
  /\ text = NamedText(fs)
  /\ md = NewParser
  /\ order \in Orders
  /\ spa \in BOOLEAN
  /\ output \in OutputRoots
  /\ pc = "start"
  /\ exit_code = -1
  /\ manifest = NoManifest
  /\ \E earlier \in BOOLEAN :
       /\ out_exists = IF output = "apart" THEN earlier ELSE is_dir(fs, << >>)
       /\ out = IF output # "apart" THEN VaultAsOutput(fs, output)
                ELSE IF earlier THEN StaleOutput ELSE {}
       /\ spa_manifest = IF earlier /\ spa THEN "stale" ELSE "none"
  /\ prior = out
  /\ written = {}
  /\ query = NoQuery
  /\ answer = NoAnswer

\* build, lines 49-53
CheckVault ==
  /\ pc = "start"
  /\ IF ~is_dir(fs, << >>)
       THEN pc' = "exit" /\ exit_code' = 1
       ELSE pc' = "clean" /\ UNCHANGED exit_code
  /\ UNCHANGED << fs, text, prior, output, order, spa, manifest, out, out_exists, spa_manifest, written, md,
                  query, answer >>

\* a slip: the files of the earlier run stay
rmtree_keep(tree) == tree

\* shutil.rmtree(output): the directory and everything below it is removed
rmtree(tree) == {}

\* build, lines 55-67: rmtree(output), output.mkdir
CleanOutput ==
  /\ pc = "clean"
  /\ out' = IF out_exists THEN rmtree(out) ELSE out
  /\ fs' = IF ~out_exists \/ output = "apart" THEN fs
           ELSE IF output = "vault" THEN rmtree(fs) \cup { RootDir }
           ELSE rmtree(fs)
  /\ out_exists' = TRUE
  /\ pc' = "manifest"
  /\ UNCHANGED << text, prior, output, order, spa, exit_code, manifest, spa_manifest, written, md,
                  query, answer >>

\* build, lines 69-71
GenerateManifest ==
  /\ pc = "manifest"
  /\ LET m == generate_manifest(fs, order, DEFAULT_TITLE)
     IN  IF m.ok
           THEN manifest' = m /\ pc' = "write_manifest" /\ UNCHANGED exit_code
           ELSE pc' = "exit" /\ exit_code' = 1 /\ UNCHANGED manifest
  /\ UNCHANGED << fs, text, prior, output, order, spa, out, out_exists, spa_manifest, written, md,
                  query, answer >>

\* build, lines 73-76
WriteManifest ==
  /\ pc = "write_manifest"
  /\ IF spa
       THEN spa_manifest' = "written" /\ UNCHANGED out
       ELSE out' = WriteOut(out, OutFile(<< MANIFEST_JSON >>, "manifest", << >>))
            /\ UNCHANGED spa_manifest
  /\ written' = written \cup { << MANIFEST_JSON >> }
  /\ pc' = "copy_graphics"
  /\ UNCHANGED << fs, text, prior, output, order, spa, exit_code, manifest, out_exists, md, query, answer >>

\* the output paths in new that old does not hold with the same content
Changed(old, new) == { f.path : f \in new \ old }

\* parse_vault, lines 522-525: create_parser, copy_graphics
CopyGraphics ==
  /\ pc = "copy_graphics"
  /\ md' = NewParser
  /\ out' = copy_graphics(fs, order, manifest.items, out)
  /\ written' = written \cup Changed(out, out')
  /\ pc' = "parse_files"
  /\ UNCHANGED << fs, text, prior, output, order, spa, exit_code, manifest, out_exists, spa_manifest,
                  query, answer >>

\* parse_vault, line 528
ParseFilePages ==
  /\ pc = "parse_files"
  /\ LET st == parse_file_pages(fs, order, text, manifest.items, [ out |-> out, md |-> md ])
     IN  out' = st.out /\ md' = st.md
  /\ written' = written \cup Changed(out, out')
  /\ pc' = "parse_readmes"
  /\ UNCHANGED << fs, text, prior, output, order, spa, exit_code, manifest, out_exists, spa_manifest,
                  query, answer >>

\* parse_vault, line 531, and build, lines 82-84
ParseReadmePages ==
  /\ pc = "parse_readmes"
  /\ LET st == parse_readme_pages(fs, order, text, manifest.items, [ out |-> out, md |-> md ])
     IN  out' = st.out /\ md' = st.md
  /\ written' = written \cup Changed(out, out')
  /\ pc' = "done"
  /\ exit_code' = 0
  /\ UNCHANGED << fs, text, prior, output, order, spa, manifest, out_exists, spa_manifest, query, answer >>

Next ==
  \/ CheckVault
  \/ CleanOutput
  \/ GenerateManifest
  \/ WriteManifest
  \/ CopyGraphics
  \/ ParseFilePages
  \/ ParseReadmePages

Spec == Init /\ [][Next]_vars

\* the build on the vaults of two pages, each page with any of the documents
InitRender ==
  /\ fs \in RenderVaults
  /\ text \in [ MdFiles(fs) -> Documents ]
  /\ md = NewParser
  /\ order \in Orders
  /\ spa = FALSE
  /\ output = "apart"
  /\ pc = "start"
  /\ exit_code = -1
  /\ manifest = NoManifest
  /\ out_exists = FALSE
  /\ out = {}
  /\ prior = {}
  /\ spa_manifest = "none"
  /\ written = {}
  /\ query = NoQuery
  /\ answer = NoAnswer

SpecRender == InitRender /\ [][Next]_vars

-----------------------------------------------------------------------------
(* slugify on its own: a name is slugified, and the slug is slugified again *)
(* (make_id slugifies the last segment of a slug).                          *)

\* the longest name that is slugified
MaxSlugLen == 3

SlugChars == { "a", "B", "1", "-", "_", " ", "/", "!" }

SlugInputs == UNION { StringsOfLen(SlugChars, n) : n \in 0..MaxSlugLen }

\* the most calls in a row
SlugCalls == 2

InitSlug ==
  /\ fs = Missing
  /\ text = NamedText(fs)
  /\ md = NewParser
  /\ order = "asc"
  /\ spa = FALSE
  /\ output = "apart"
  /\ pc = "slugify"
  /\ exit_code = -1
  /\ manifest = NoManifest
  /\ out_exists = FALSE
  /\ out = {}
  /\ prior = {}
  /\ spa_manifest = "none"
  /\ written = {}
  /\ \E name \in SlugInputs : query = [ kind |-> "slugify", name |-> name, calls |-> 0 ]
  /\ answer = query.name

\* text = slugify(text)
Slugify ==
  /\ pc = "slugify"
  /\ query.calls < SlugCalls
  /\ answer' = slugify(answer)
  /\ query' = [ query EXCEPT !.calls = @ + 1 ]
  /\ UNCHANGED << fs, text, prior, output, order, spa, pc, exit_code, manifest, out, out_exists, spa_manifest,
                  written, md >>

NextSlug == Slugify

SpecSlug == InitSlug /\ [][NextSlug]_vars

-----------------------------------------------------------------------------
(* The sanitization pass on its own: the five substitutions are applied to  *)
(* rendered HTML, and to their own result.                                   *)

\* the most pieces in the HTML that is sanitized
MaxPieces == 4

\* whole elements and attributes, and the parts of tags that raw HTML may hold
HtmlPieces ==
  { << "<", "s", "c", "r", "i", "p", "t", ">", "a", "<", "/", "s", "c", "r",
       "i", "p", "t", ">" >>,
    << "<", "s", "c", "r" >>,
    << "i", "p", "t", ">", "a", "<", "/", "s", "c", "r", "i", "p", "t", ">" >>,
    << " ", "o", "n", "c", "l", "i", "c", "k", "=", "\"", "a", "\"" >>,
    << " ", "o", "n" >>,
    << "x", "=", "\"", "a", "\"" >> }

RECURSIVE Concat(_)
Concat(pieces) == IF pieces = << >> THEN << >> ELSE Head(pieces) \o Concat(Tail(pieces))

HtmlInputs == { Concat(q) : q \in UNION { [ 1..n -> HtmlPieces ] : n \in 0..MaxPieces } }

\* the most passes in a row
SanitizeCalls == 2

InitSanitize ==
  /\ fs = Missing
  /\ text = NamedText(fs)
  /\ md = NewParser
  /\ order = "asc"
  /\ spa = FALSE
  /\ output = "apart"
  /\ pc = "sanitize"
  /\ exit_code = -1
  /\ manifest = NoManifest
  /\ out_exists = FALSE
  /\ out = {}
  /\ prior = {}
  /\ spa_manifest = "none"
  /\ written = {}
  /\ \E html \in HtmlInputs : query = [ kind |-> "sanitize", html |-> html, calls |-> 0 ]
  /\ answer = query.html

\* _sanitized_call, lines 245-251: html = re.sub(...), five times
Sanitize ==
  /\ pc = "sanitize"
  /\ query.calls < SanitizeCalls
  /\ answer' = sanitize(answer)
  /\ query' = [ query EXCEPT !.calls = @ + 1 ]
  /\ UNCHANGED << fs, text, prior, output, order, spa, pc, exit_code, manifest, out, out_exists, spa_manifest,
                  written, md >>

NextSanitize == Sanitize

SpecSanitize == InitSanitize /\ [][NextSanitize]_vars

-----------------------------------------------------------------------------
(* The inline grammar at work: the inline text of a page is cut into tokens *)
(* and each token is rendered against the manifest.                         *)

\* the most pieces of an inline text
MaxInline == 5

InlinePieces ==
  { << "!" >>, << "[", "[" >>, << "]", "]" >>, << "x", "/", "a", ".", "p", "n", "g", "|", "9" >>,
    << "(", "a", ")" >> }

InlineTexts == { Concat(q) : q \in UNION { [ 1..n -> InlinePieces ] : n \in 1..MaxInline } }

InitInline ==
  /\ fs \in { FullVault, TwoMarkers }
  /\ text = NamedText(fs)
  /\ md = NewParser
  /\ order = "asc"
  /\ spa = FALSE
  /\ output = "apart"
  /\ pc = "parse_files"
  /\ exit_code = -1
  /\ manifest = generate_manifest(fs, order, DEFAULT_TITLE)
  /\ out_exists = TRUE
  /\ prior = {}
  /\ out = copy_graphics(fs, order, manifest.items,
                         { OutFile(<< MANIFEST_JSON >>, "manifest", << >>) })
  /\ spa_manifest = "none"
  /\ written = { f.path : f \in out }
  /\ query = NoQuery
  /\ answer = NoAnswer

\* md.inline on the text of a paragraph, and the rendering of its tokens
RenderInline ==
  /\ pc = "parse_files"
  /\ query = NoQuery
  /\ \E s \in InlineTexts :
       /\ query' = [ kind |-> "inline", text |-> s ]
       /\ answer' = render_inline(s, manifest.items)
  /\ UNCHANGED << fs, text, prior, output, order, spa, pc, exit_code, manifest, out, out_exists, spa_manifest,
                  written, md >>

NextInline == RenderInline

SpecInline == InitInline /\ [][NextInline]_vars

-----------------------------------------------------------------------------
(* The renderer at work: parse_vault has built the indexes (create_parser)   *)
(* and copied the graphics; each [[link]] and ![[embed]] of a page is        *)
(* resolved against the manifest.                                            *)

InitResolve ==
  /\ fs \in ResolveVaults
  /\ text = NamedText(fs)
  /\ md = NewParser
  /\ order \in Orders
  /\ spa = FALSE
  /\ output = "apart"
  /\ pc = "parse_files"
  /\ exit_code = -1
  /\ manifest = generate_manifest(fs, order, DEFAULT_TITLE)
  /\ out_exists = TRUE
  /\ prior = {}
  /\ out = copy_graphics(fs, order, manifest.items,
                         { OutFile(<< MANIFEST_JSON >>, "manifest", << >>) })
  /\ spa_manifest = "none"
  /\ written = { f.path : f \in out }
  /\ query = NoQuery
  /\ answer = NoAnswer

\* render_wiki_link -> resolve_wiki_link
ResolveWikiLink ==
  /\ pc = "parse_files"
  /\ query = NoQuery
  /\ \E target \in Targets :
       /\ query' = [ kind |-> "wiki_link", text |-> target ]
       /\ answer' = resolve_wiki_link(target, build_title_index(manifest.items, EmptyIndex),
                                      build_slug_index(manifest.items, EmptyIndex))
  /\ UNCHANGED << fs, text, prior, output, order, spa, pc, exit_code, manifest, out, out_exists, spa_manifest,
                  written, md >>

\* render_wiki_embed -> resolve_image_embed, on the filename before any "|"
ResolveImageEmbed ==
  /\ pc = "parse_files"
  /\ query = NoQuery
  /\ \E filename \in EmbedNames :
       /\ query' = [ kind |-> "wiki_embed", text |-> filename ]
       /\ answer' = resolve_image_embed(filename, build_asset_index(manifest.items, EmptyIndex))
  /\ UNCHANGED << fs, text, prior, output, order, spa, pc, exit_code, manifest, out, out_exists, spa_manifest,
                  written, md >>

\* the renderer goes on to the next token of the page
NextToken ==
  /\ query # NoQuery
  /\ query' = NoQuery
  /\ answer' = NoAnswer
  /\ UNCHANGED << fs, text, prior, output, order, spa, pc, exit_code, manifest, out, out_exists, spa_manifest,
                  written, md >>

NextResolve ==
  \/ ResolveWikiLink
  \/ ResolveImageEmbed
  \/ NextToken

SpecResolve == InitResolve /\ [][NextResolve]_vars

-----------------------------------------------------------------------------
(* What the claims speak of, stated from the vault alone *)

Prefix(path, k) == Slice(path, 1, k)

\* the directory holds a file whose lowercased name is readme.md
HasMarker(dir) ==
  \E e \in fs : /\ e.kind = "file"
                /\ Len(e.path) = Len(dir) + 1
                /\ PathParent(e.path) = dir
                /\ str_lower(PathName(e.path)) = README_MD

\* the directory holds a file with a recognized image extension
HasImage(dir) ==
  \E e \in fs : /\ e.kind = "file"
                /\ Len(e.path) = Len(dir) + 1
                /\ PathParent(e.path) = dir
                /\ str_lower(path_suffix(PathName(e.path))) \in IMAGE_EXTENSIONS

Reserved(name) == name \in IGNORE_DIRS \cup IGNORE_FILES

\* the eligible directories: the root and every directory below it that has a
\* marker file, as all its ancestors have, none of them reserved or named
\* "graphics"
EligibleDirs ==
  { e.path : e \in { x \in fs :
      /\ x.kind = "dir"
      /\ \A k \in 0..Len(x.path) : HasMarker(Prefix(x.path, k))
      /\ \A k \in 1..Len(x.path) : /\ ~Reserved(x.path[k])
                                   /\ x.path[k] # GRAPHICS_DIR_NAME } }

\* the markdown files, other than the marker, of the eligible directories
EligibleFiles ==
  { e.path : e \in { x \in fs :
      /\ x.kind = "file"
      /\ Len(x.path) >= 1
      /\ PathParent(x.path) \in EligibleDirs
      /\ str_lower(path_suffix(PathName(x.path))) = DOT_MD
      /\ str_lower(PathName(x.path)) # README_MD
      /\ PathName(x.path) \notin IGNORE_FILES } }

\* the directories named "graphics" that hold an image
EligibleGraphics ==
  { e.path : e \in { x \in fs :
      /\ x.kind = "dir"
      /\ Len(x.path) >= 1
      /\ PathParent(x.path) \in EligibleDirs
      /\ PathName(x.path) = GRAPHICS_DIR_NAME
      /\ HasImage(x.path) } }

EligibleEntries == EligibleDirs \cup EligibleFiles \cup EligibleGraphics

Items == IF manifest.ok THEN manifest.items ELSE << >>

NodesOf(path) == { i \in 1..Len(Items) : Items[i].src = path }

\* C1: every node's ancestor directories, up to the vault root, hold a marker
\* file, and so does the directory of every directory node: a directory without
\* a marker file contributes no node, whatever lies below it.
C1_Pruning ==
  \A i \in 1..Len(Items) :
    /\ \A k \in 0..(Len(Items[i].src) - 1) : HasMarker(Prefix(Items[i].src, k))
    /\ Items[i].type = "directory" => HasMarker(Items[i].src)

\* a manifest was built of a vault with a marker-less directory that holds an
\* eligible-looking subdirectory
C1_Witness ==
  /\ manifest.ok
  /\ \E d \in fs, e \in fs :
       /\ d.kind = "dir" /\ e.kind = "dir"
       /\ Len(e.path) = Len(d.path) + 1
       /\ PathParent(e.path) = d.path
       /\ ~HasMarker(d.path)
       /\ str_lower(PathName(d.path)) # GRAPHICS_DIR_NAME
       /\ HasMarker(e.path)

\* C2: ids are unique across the manifest: every eligible entry of the vault
\* has its own id, so items holds exactly one node for each of them.
C2_UniqueIds == manifest.ok => \A p \in EligibleEntries : Cardinality(NodesOf(p)) = 1

\* C3: two markdown files of one eligible directory (the root included) whose
\* names slugify to the same base name are both in the manifest, as file nodes
\* with distinct ids.
C3_CollidingFilesKept ==
  manifest.ok =>
    \A f \in EligibleFiles, g \in EligibleFiles :
      ( /\ f # g
        /\ PathParent(f) = PathParent(g)
        /\ slugify(path_stem(PathName(f))) = slugify(path_stem(PathName(g))) )
      => \E i \in NodesOf(f), j \in NodesOf(g) :
           /\ Items[i].type = "file" /\ Items[j].type = "file"
           /\ Items[i].id # Items[j].id

\* C4: no two nodes of type directory or file have the same slug.
C4_UniqueSlugs ==
  \A i \in 1..Len(Items), j \in 1..Len(Items) :
    ( /\ i # j
      /\ Items[i].type # "graphics"
      /\ Items[j].type # "graphics" )
    => Items[i].slug # Items[j].slug

\* C5: a child directory of an eligible directory is a graphics node if and
\* only if it is named exactly "graphics" and holds an image; a directory of any
\* other name is a node only with a marker file, and then a directory node.
C5_GraphicsExactName ==
  manifest.ok =>
    \A e \in fs :
      ( /\ e.kind = "dir"
        /\ Len(e.path) >= 1
        /\ PathParent(e.path) \in EligibleDirs )
      => /\ (\E i \in NodesOf(e.path) : Items[i].type = "graphics")
              <=> (PathName(e.path) = GRAPHICS_DIR_NAME /\ HasImage(e.path))
         /\ PathName(e.path) # GRAPHICS_DIR_NAME =>
              \A i \in NodesOf(e.path) :
                Items[i].type = "directory" /\ HasMarker(e.path)

\* the order of the claim: directories before files, then by lowercased name
ComesBefore(a, b) ==
  \/ is_dir(fs, a) /\ ~is_dir(fs, b)
  \/ /\ is_dir(fs, a) = is_dir(fs, b)
     /\ str_less(str_lower(PathName(a)), str_lower(PathName(b)))

\* the entries of a directory that leave an id: its markdown files other than
\* the marker, its subdirectories with a marker file, and its graphics
\* directories with an image (a graphics directory is one the manifest types
\* so, in any letter case); none of them reserved
Listed(dir) ==
  { e.path : e \in { x \in fs :
      /\ Len(x.path) = Len(dir) + 1
      /\ PathParent(x.path) = dir
      /\ ~Reserved(PathName(x.path))
      /\ \/ /\ x.kind = "file"
            /\ str_lower(path_suffix(PathName(x.path))) = DOT_MD
            /\ str_lower(PathName(x.path)) # README_MD
         \/ /\ x.kind = "dir"
            /\ IF str_lower(PathName(x.path)) = GRAPHICS_DIR_NAME
                 THEN HasImage(x.path) ELSE HasMarker(x.path) } }

\* C6: the children of every directory node are in traversal order: the ids
\* come from distinct entries of the directory, child directories (graphics and
\* eligible subdirectories) before files and each group in ascending order of
\* the lowercased names; ignored and ineligible entries leave no id.
C6_ChildrenOrder ==
  \A i \in 1..Len(Items) :
    Items[i].type = "directory" =>
      LET cs == Items[i].children_src
      IN  /\ Len(cs) = Len(Items[i].children)
          /\ \A a \in 1..Len(cs), b \in 1..Len(cs) : a < b => ~ComesBefore(cs[b], cs[a])
          /\ \A a \in 1..Len(cs), b \in 1..Len(cs) : a # b => cs[a] # cs[b]
          /\ { cs[a] : a \in 1..Len(cs) } = Listed(Items[i].src)

\* a directory node lists a child directory and a child file, in a vault that
\* also holds entries that leave no id
C6_Witness ==
  \E i \in 1..Len(Items) :
    /\ Items[i].type = "directory"
    /\ \E a \in 1..Len(Items[i].children_src), b \in 1..Len(Items[i].children_src) :
         /\ a < b
         /\ is_dir(fs, Items[i].children_src[a])
         /\ is_file(fs, Items[i].children_src[b])
    /\ \E e \in fs : /\ Len(e.path) = Len(Items[i].src) + 1
                     /\ PathParent(e.path) = Items[i].src
                     /\ e.kind = "dir"
                     /\ e.path \notin Listed(Items[i].src)

\* what this run has put into the output location
RunOutput == { f \in out : f.kind \in { "manifest", "html", "asset" } }

\* C7: when the source root is not a directory, or has no marker file, build
\* ends with exit status 1 and has written no manifest, fragment or asset: it
\* never gets past the generation of the manifest, and all it may have done to
\* the output location is to create the output directory.
C7_FatalWritesNothing ==
  (~is_dir(fs, << >>) \/ ~HasMarker(<< >>)) =>
    /\ pc \in { "start", "clean", "manifest", "exit" }
    /\ pc = "exit" => exit_code = 1
    /\ pc # "exit" => exit_code = -1
    /\ written = {}
    /\ RunOutput = {}
    /\ spa_manifest # "written"

\* build has exited on a root without marker file, after creating the output
\* directory
C7_Witness ==
  /\ pc = "exit"
  /\ exit_code = 1
  /\ is_dir(fs, << >>)
  /\ \E e \in fs : Len(e.path) = 2
  /\ out_exists
  /\ out = {}

-----------------------------------------------------------------------------
(* What the resolver's claims speak of, stated from the manifest's items *)

PageItems == SelectSeq(Items, LAMBDA n : n.type # "graphics")
GraphicsItems == SelectSeq(Items, LAMBDA n : n.type = "graphics")

\* the page nodes of a slug, and of a lowercased title, in manifest order
BySlug(key) == SelectSeq(PageItems, LAMBDA n : n.slug = key)
ByTitle(key) == SelectSeq(PageItems, LAMBDA n : str_lower(n.title) = key)

\* the node the slug index holds for a slug
SlugNode(key) == BySlug(key)[Len(BySlug(key))]

\* the link being resolved: its target, trimmed, and its display override
LinkTarget == str_strip(target_part_of(query.text), SpaceSet)
LinkOverride == display_of(query.text)
LinkKey1 == str_lower(str_replace(LinkTarget, " ", << "-" >>))
LinkKey3 == slugify(LinkTarget)
LinkTitleKey == str_lower(LinkTarget)

EmbedBasename ==
  LET f == str_strip(query.text, SpaceSet)
  IN  IF Contains(f, "/") THEN Slice(f, LastIdx(f, "/") + 1, Len(f)) ELSE f

\* the graphics nodes that list a filename among their assets
Owners(basename) ==
  { i \in 1..Len(GraphicsItems) :
      \E k \in 1..Len(GraphicsItems[i].assets) : GraphicsItems[i].assets[k] = basename }

\* C10: resolve_image_embed returns a path for every filename: the content_path
\* of a graphics node owning the basename (directory prefix stripped) followed
\* by the basename, or "/graphics/<basename>" when no node owns it.
C10_EmbedPath ==
  query.kind = "wiki_embed" =>
    /\ answer \in Seq(CharSet)
    /\ IF Owners(EmbedBasename) # {}
         THEN \E i \in Owners(EmbedBasename) :
                answer = GraphicsItems[i].content_path \o EmbedBasename
         ELSE answer = DEFAULT_GRAPHICS \o EmbedBasename

\* an embed with a directory prefix whose basename a graphics node owns
C10_Witness ==
  /\ query.kind = "wiki_embed"
  /\ Contains(query.text, "/")
  /\ Owners(EmbedBasename) # {}
  /\ \E i \in Owners(EmbedBasename) :
       answer = GraphicsItems[i].content_path \o EmbedBasename

-----------------------------------------------------------------------------
(* Rendering: heading ids and sanitization *)

\* the HTML fragments of the output tree
Fragments == { f \in out : f.kind = "html" }

\* the slugs of the headings of a document, in document order
HeadingSlugs(doc) ==
  LET hs == SelectSeq(doc, LAMBDA b : b.type = "heading")
  IN  [ i \in 1..Len(hs) |-> slugify_heading(hs[i].raw) ]

SeqRange(q) == { q[i] : i \in 1..Len(q) }

\* C11: heading ids are deduplicated within one rendered document: when two
\* documents rendered in the same run each have a heading of the same text,
\* both get the id x of that text, not x in one and x-1 in the other.
C11_PerDocumentIds ==
  pc = "done" =>
    \A f \in Fragments, g \in Fragments :
      f.path # g.path =>
        \A x \in SeqRange(HeadingSlugs(text[f.from])) \cap SeqRange(HeadingSlugs(text[g.from])) :
          x \in SeqRange(f.ids) /\ x \in SeqRange(g.ids)

\* the number of headings of the slug among the first i headings
Occurrences(slugs, i) == Cardinality({ k \in 1..i : slugs[k] = slugs[i] })

\* C12: in a document rendered by a freshly created parser, the n-th heading
\* whose slug is x gets the id x-(n-1), and the first gets x.
C12_NthHeadingId ==
  \A f \in Fragments :
    f.nth = 0 =>
      LET slugs == HeadingSlugs(text[f.from])
      IN  /\ Len(f.ids) = Len(slugs)
          /\ \A i \in 1..Len(slugs) :
                f.ids[i] = IF Occurrences(slugs, i) = 1 THEN slugs[i]
                           ELSE slugs[i] \o << "-" >> \o int_str(Occurrences(slugs, i) - 1)

C12_Witness ==
  \E f \in Fragments :
    /\ f.nth = 0
    /\ Len(f.ids) = 3
    /\ Occurrences(HeadingSlugs(text[f.from]), 3) = 3

\* whether the HTML holds an element or an attribute that the sanitizer removes
Unsafe(html) ==
  \E i \in 1..Len(html) :
    \/ \E e \in 1..Len(ELEMENTS) : ElementEnd(html, i, ELEMENTS[e].open, ELEMENTS[e].close) # 0
    \/ AttributeEnd(html, i, "\"") # 0
    \/ AttributeEnd(html, i, "'") # 0

\* C13: every HTML fragment that parse_file_pages or parse_readme_pages writes
\* has passed through sanitization: no script, style or iframe element and no
\* on* attribute of the source is in the written fragment.
C13_FragmentsSanitized == \A f \in Fragments : ~Unsafe(f.content)

-----------------------------------------------------------------------------
(* Determinism *)

\* what manifest.json says of a node
NodeJson(n) ==
  [ slug |-> n.slug, id |-> n.id, type |-> n.type, title |-> n.title,
    content_path |-> n.content_path, children |-> n.children, assets |-> n.assets ]

ManifestJson(m) == [ rootId |-> m.rootId, items |-> [ i \in 1..Len(m.items) |-> NodeJson(m.items[i]) ] ]

\* the bytes of the fragments and assets of an output tree: a fragment's text,
\* an asset's source
Bytes(tree) ==
  { [ path |-> f.path, bytes |-> IF f.kind = "asset" THEN f.from ELSE f.content ] :
      f \in { g \in tree : g.kind \in { "html", "asset" } } }

\* C14: the build is deterministic: a second run on the unchanged vault with
\* the same arguments, whatever the order in which the operating system lists
\* the directories, yields the same manifest (order of items and children
\* included) and the same fragments and assets.
C14_Deterministic ==
  pc = "done" =>
    \A again \in Orders :
      LET m == generate_manifest(fs, again, DEFAULT_TITLE)
      IN  /\ ManifestJson(m) = ManifestJson(manifest)
          /\ Bytes(parse_vault(fs, again, text, m.items, {}).out) = Bytes(out)

-----------------------------------------------------------------------------
(* Slugs and content paths *)

\* C15: slugify is idempotent: a slug that slugify returned is returned
\* unchanged when it is slugified again.
C15_SlugifyIdempotent ==
  pc = "slugify" /\ query.calls >= 1 => slugify(answer) = answer

C15_Witness ==
  /\ pc = "slugify"
  /\ query.calls = 2
  /\ answer # query.name
  /\ Len(answer) = 3

\* C16: content_path follows the type of the node: /readme.html for the root,
\* /<slug>/README.html for any other directory, /<slug>.html for a file and
\* /<slug>/ for a graphics directory.
C16_ContentPaths ==
  manifest.ok =>
    \A i \in 1..Len(manifest.items) :
      LET n == manifest.items[i]
      IN  n.content_path =
            IF n.type = "directory" /\ n.src = << >> THEN << "/", "r", "e", "a", "d", "m", "e", ".", "h", "t", "m", "l" >>
            ELSE IF n.type = "directory" THEN << "/" >> \o n.slug \o << "/", "R", "E", "A", "D", "M", "E", ".", "h", "t", "m", "l" >>
            ELSE IF n.type = "file" THEN << "/" >> \o n.slug \o << ".", "h", "t", "m", "l" >>
            ELSE << "/" >> \o n.slug \o << "/" >>

C16_Witness ==
  /\ manifest.ok
  /\ \A t \in { "directory", "file", "graphics" } :
        \E i \in 1..Len(manifest.items) : manifest.items[i].type = t /\ manifest.items[i].src # << >>

-----------------------------------------------------------------------------
(* The jobs of parse_vault *)

JobOrders ==
  { q \in [ 1..3 -> { "graphics", "files", "readmes" } ] :
      \A i \in 1..3, j \in 1..3 : i # j => q[i] # q[j] }

\* one job on the output tree and the md object
RunJob(job, items, st) ==
  IF job = "graphics" THEN [ st EXCEPT !.out = copy_graphics(fs, order, items, st.out) ]
  ELSE IF job = "files" THEN parse_file_pages(fs, order, text, items, st)
  ELSE parse_readme_pages(fs, order, text, items, st)

\* the three jobs in the given order, from an empty output tree and a new parser
RunJobs(jobs, items) ==
  RunJob(jobs[3], items,
         RunJob(jobs[2], items,
                RunJob(jobs[1], items, [ out |-> {}, md |-> NewParser ])))

\* C17: the three jobs of parse_vault are independent and insensitive to
\* order: run in any order of the jobs, and over the nodes in either direction
\* within each job, they produce the same output files with the same contents.
C17_JobsCommute ==
  pc = "done" =>
    \A jobs \in JobOrders, items \in { manifest.items, Reverse(manifest.items) } :
      Bytes(RunJobs(jobs, items).out) = Bytes(out)

\* the output path of a node's fragment
FragmentPath(n) == PathParts(str_lstrip(n.content_path, { "/" }))

\* whether the source of a node is found in the vault
SourceFound(n) ==
  IF n.type = "file" THEN file_source(fs, order, n.slug) # NO_PATH
  ELSE IF n.type = "directory" THEN readme_source(fs, order, n.slug) # NO_PATH
  ELSE resolve_slug_to_dir(fs, order, n.slug) # NO_PATH

\* whether the output tree holds what the node's job writes for it: the
\* fragment of a page, the assets that the graphics directory holds
Processed(n) ==
  IF n.type = "graphics"
    THEN \A i \in 1..Len(n.assets) :
           is_file(fs, Append(resolve_slug_to_dir(fs, order, n.slug), n.assets[i])) =>
             \E f \in out : f.kind = "asset" /\ f.path = Append(PathParts(n.slug), n.assets[i])
    ELSE \E f \in out : f.kind = "html" /\ f.path = FragmentPath(n)

\* whether the output tree holds a file for the node
Written(n) ==
  IF n.type = "graphics"
    THEN \E f \in out : /\ f.kind = "asset"
                         /\ Len(f.path) > Len(PathParts(n.slug))
                         /\ Prefix(f.path, Len(PathParts(n.slug))) = PathParts(n.slug)
    ELSE \E f \in out : f.kind = "html" /\ f.path = FragmentPath(n)

\* C18: a missing source never aborts the run: a node whose source file,
\* directory, marker or graphics directory is not found is skipped, every
\* other node of that job and of the later jobs is processed, and parse_vault
\* returns normally.
C18_MissingSourceSkipped ==
  /\ manifest.ok /\ pc = "exit" => exit_code = 0
  /\ pc = "done" =>
       /\ exit_code = 0
       /\ \A i \in 1..Len(manifest.items) :
             SourceFound(manifest.items[i]) => Processed(manifest.items[i])

C18_Witness ==
  /\ pc = "done"
  /\ \A t \in { "graphics", "file", "directory" } :
        \E i \in 1..Len(manifest.items), j \in 1..Len(manifest.items) :
          /\ i < j
          /\ manifest.items[i].type = t /\ ~SourceFound(manifest.items[i])
          /\ ~Written(manifest.items[i])
          /\ manifest.items[j].type = t \/ t = "graphics"
          /\ SourceFound(manifest.items[j]) /\ Written(manifest.items[j])

-----------------------------------------------------------------------------
(* The output directory *)

\* C19: the build fully replaces prior output: after a successful build the
\* output directory holds only files that this run wrote, none left by an
\* earlier run.
C19_OutputReplaced ==
  pc = "done" => \A f \in out : f \notin prior /\ f.path \in written

C19_Witness ==
  /\ pc = "done"
  /\ \E f \in prior : f.path \notin { g.path : g \in out }
  /\ \E f \in prior : \E g \in out : g.path = f.path /\ g.kind = "html"

-----------------------------------------------------------------------------
(* The asset index *)

\* the last graphics node, in the order of items, that lists the filename
LastOwner(basename) ==
  CHOOSE i \in Owners(basename) : \A j \in Owners(basename) : j <= i

\* C20: a filename that several graphics nodes list maps to the content_path
\* of the graphics node that comes last in the order of items, and an embed
\* of that filename resolves to that route.
C20_LastGraphicsWins ==
  query.kind = "wiki_embed" /\ Cardinality(Owners(EmbedBasename)) >= 2 =>
    /\ build_asset_index(manifest.items, EmptyIndex)[EmbedBasename]
         = GraphicsItems[LastOwner(EmbedBasename)].content_path
    /\ answer = GraphicsItems[LastOwner(EmbedBasename)].content_path \o EmbedBasename

C20_Witness ==
  /\ query.kind = "wiki_embed"
  /\ Cardinality(Owners(EmbedBasename)) >= 2
  /\ answer = GraphicsItems[LastOwner(EmbedBasename)].content_path \o EmbedBasename
  /\ \E i \in Owners(EmbedBasename) :
       GraphicsItems[i].content_path # GraphicsItems[LastOwner(EmbedBasename)].content_path

-----------------------------------------------------------------------------
(* The sanitization pass *)

\* C21: the sanitization pass is idempotent: applied to its own output it
\* changes nothing, so its output holds no script, style or iframe element and
\* no quoted on* attribute that the pass removes.
C21_SanitizeIdempotent ==
  pc = "sanitize" /\ query.calls >= 1 => sanitize(answer) = answer /\ ~Unsafe(answer)

-----------------------------------------------------------------------------
(* Rendering writes each fragment once *)

\* the file and directory nodes that the parse jobs render
Rendered ==
  { i \in 1..Len(manifest.items) :
      manifest.items[i].type \in { "file", "directory" } /\ SourceFound(manifest.items[i]) }

\* C22: rendering is write-once: in one run of parse_vault no two rendered
\* file or directory nodes have the same content_path, so no fragment written
\* for one node is overwritten by the fragment of another.
C22_WriteOnce ==
  pc = "done" =>
    \A i \in Rendered, j \in Rendered :
      i # j => manifest.items[i].content_path # manifest.items[j].content_path

-----------------------------------------------------------------------------
(* The inline grammar *)

\* the filename of an embed target: what stands before its first "|"
EmbedFile(target) ==
  CHOOSE f \in { Prefix(target, k) : k \in 0..Len(target) } :
    /\ ~Contains(f, "|")
    /\ Len(f) < Len(target) => target[Len(f) + 1] = "|"

\* the alt text of a filename: its last path segment up to its last dot
EmbedAlt(file) ==
  LET segments == str_split(file, "/")
      name     == segments[Len(segments)]
      dots     == { k \in 1..Len(name) : name[k] = "." }
  IN  IF dots = {} THEN name
      ELSE Prefix(name, (CHOOSE k \in dots : \A d \in dots : d <= k) - 1)

\* the image element with a source and an alt text
ImageElement(src, alt) ==
  << "<", "i", "m", "g", " ", "s", "r", "c", "=", "\"" >> \o src
    \o << "\"", " ", "a", "l", "t", "=", "\"" >> \o alt \o << "\"", " ", "/", ">" >>

\* the tokens of the rendered text that start where an embed ![[target]] starts
EmbedTokens ==
  { k \in 1..Len(answer.tokens) : wiki_embed_pattern(query.text, answer.tokens[k].start) > 0 }

\* C23: the media-embed token has priority over the wiki-link and link
\* tokens: where the inline parser meets ![[target]] it makes one embed token
\* of the whole of it, rendered as one image element whose src is
\* resolve_image_embed of the target without its "|" size hint and whose alt
\* is the base name without extension; never a "!" followed by a wiki-link
\* anchor or a standard link.
C23_EmbedFirst ==
  query # NoQuery /\ query.kind = "inline" =>
    \A k \in EmbedTokens :
      LET tok    == answer.tokens[k]
          target == Slice(query.text, tok.start + 3, wiki_embed_pattern(query.text, tok.start) - 3)
      IN  /\ tok.type = "wiki_embed"
          /\ tok.end = wiki_embed_pattern(query.text, tok.start)
          /\ answer.html[k] =
               ImageElement(resolve_image_embed(EmbedFile(target),
                                                build_asset_index(manifest.items, EmptyIndex)),
                            EmbedAlt(EmbedFile(target)))

C23_Witness ==
  /\ query # NoQuery /\ query.kind = "inline"
  /\ \E k \in EmbedTokens :
       /\ answer.tokens[k].raw = << "x", "/", "a", ".", "p", "n", "g", "|", "9" >>
       /\ answer.html[k] = ImageElement(<< "/", "x", "/", "g", "r", "a", "p", "h", "i", "c", "s", "/",
                                           "a", ".", "p", "n", "g" >>, << "a" >>)
       /\ k > 1 /\ answer.tokens[k - 1].raw = << "!" >>

-----------------------------------------------------------------------------
(* The manifest as a graph *)

\* the places of an id in the children lists: << parent, position >>
ChildPlaces(id) ==
  { << i, k >> \in (1..Len(Items)) \X (1..(Len(Items) + 1)) :
      k <= Len(Items[i].children) /\ Items[i].children[k] = id }

\* the ids in the children list of the nodes of a set of ids
ChildrenOf(ids) ==
  { Items[i].children[k] : << i, k >> \in
      { q \in (1..Len(Items)) \X (1..(Len(Items) + 1)) :
          Items[q[1]].id \in ids /\ q[2] <= Len(Items[q[1]].children) } }

\* the ids reached from a set of ids in at most n steps down the children lists
RECURSIVE Descendants(_, _)
Descendants(ids, n) ==
  IF n = 0 \/ ids = {} THEN {}
  ELSE ChildrenOf(ids) \cup Descendants(ChildrenOf(ids), n - 1)

\* C24: the children lists form a tree rooted at rootId: no directory is its
\* own child or descendant, every node other than the root is in exactly one
\* children list, exactly once, and every node of items is reached from
\* rootId.
C24_ChildrenTree ==
  manifest.ok =>
    /\ \A i \in 1..Len(Items) :
         /\ Items[i].id \notin Descendants({ Items[i].id }, Len(Items))
         /\ Items[i].id # manifest.rootId => Cardinality(ChildPlaces(Items[i].id)) = 1
    /\ { Items[i].id : i \in 1..Len(Items) }
         \subseteq { manifest.rootId } \cup Descendants({ manifest.rootId }, Len(Items))

\* the ids that are keys of items
ItemIds == { Items[i].id : i \in 1..Len(Items) }

\* C25: the manifest is referentially closed: rootId is "root-dir", a key of
\* items whose node is the directory node of the vault root (slug "root"),
\* and every id in a children list is a key of items.
C25_ReferentiallyClosed ==
  manifest.ok =>
    /\ manifest.rootId = << "r", "o", "o", "t", "-", "d", "i", "r" >>
    /\ \E i \in 1..Len(Items) :
         /\ Items[i].id = manifest.rootId
         /\ Items[i].type = "directory"
         /\ Items[i].slug = << "r", "o", "o", "t" >>
         /\ Items[i].src = << >>
         /\ \A j \in 1..Len(Items) : Items[j].id = manifest.rootId => j = i
    /\ \A i \in 1..Len(Items) :
         \A k \in 1..Len(Items[i].children) : Items[i].children[k] \in ItemIds

\* a directory named "root" is walked: its id is that of the root, and the
\* root lists it, and its page, as children
C25_Witness ==
  /\ manifest.ok
  /\ is_dir(fs, << << "r", "o", "o", "t" >> >>)
  /\ \E i \in 1..Len(Items) :
       /\ Items[i].id = manifest.rootId
       /\ \E k \in 1..Len(Items[i].children) : Items[i].children[k] = manifest.rootId
  /\ \E i \in 1..Len(Items) : Items[i].src = << << "r", "o", "o", "t" >>, << "x", ".", "m", "d" >> >>

-----------------------------------------------------------------------------
(* Heading ids of one document *)

\* C26: within one rendered document all heading ids are pairwise distinct,
\* for every sequence of heading texts, also when the text of a heading looks
\* like a deduplicated id ("Foo", "Foo", "Foo 1").
C26_DistinctHeadingIds ==
  \A f \in Fragments :
    \A i \in 1..Len(f.ids), j \in 1..Len(f.ids) : i # j => f.ids[i] # f.ids[j]

-----------------------------------------------------------------------------
(* A failed build *)

\* C27: a build that stops on a fatal condition leaves prior output untouched:
\* when build exits because the source root lacks its marker file, the files
\* of an output directory that was there before are the same as before the run.
C27_FatalKeepsPriorOutput ==
  pc = "exit" /\ exit_code = 1 /\ is_dir(fs, << >>) /\ ~HasMarker(<< >>) => out = prior

-----------------------------------------------------------------------------
(* The source vault *)

\* C28: build never deletes or modifies a file of the source vault, whatever
\* the output root or SPA root is, also when the output directory is the vault
\* itself or a directory that holds it.
C28_VaultUntouched == [][fs' = fs]_vars

-----------------------------------------------------------------------------
(* The source of a file node *)

\* C29: source resolution inverts slug assignment: for every file node of the
\* manifest, the markdown file that parse_file_pages reads and renders for the
\* node is the file from which generate_manifest derived the node, also for
\* names with spaces, underscores or mixed case and for two files of one
\* directory whose names slugify alike.
C29_SourceIsOrigin ==
  pc = "done" =>
    \A i \in 1..Len(Items) :
      Items[i].type = "file" =>
        /\ file_source(fs, order, Items[i].slug) = Items[i].src
        /\ \E f \in out : f.kind = "html" /\ f.path = FragmentPath(Items[i])

====
